---- MODULE Spec2Model ----
(***************************************************************************)
(* The property listing wizard of weinn-lister (src/pages/ListProperty.tsx) *)
(* and the tables it writes (the supabase migration): the form aggregate,   *)
(* the step gates, the photo uploads, handleSubmit's sequence of            *)
(* persistence calls in create and in edit mode, and the row policies of    *)
(* the tables.                                                              *)
(***************************************************************************)
EXTENDS Integers, Sequences, FiniteSets, TLC

VARIABLES
  formData,        \* useState<PropertyFormData>
  currentStep,     \* useState(1)
  isSubmitting,    \* useState(false)
  loading,         \* useState(false), true while loadPropertyData runs
  id,              \* useParams().id: Null in create mode, <<pid>> in edit mode
  user,            \* useAuth().user: the id of the signed-in user
  navigated,       \* navigate('/dashboard') has unmounted the wizard
  properties,      \* table public.properties
  property_rooms,  \* table public.property_rooms
  room_photos,     \* table room_photos
  property_photos, \* table public.property_photos
  nextId,          \* the next identifier gen_random_uuid() hands out
  pc,              \* the await handleSubmit / loadPropertyData is suspended at
  sub,             \* handleSubmit's closure: formData, property, rooms, i
  log,             \* the persistence calls of the current submission, in issue order
  pre,             \* the tables as they were when the current submission started
  errorToasts,     \* destructive toasts shown by the current submission
  successToasts,   \* success toasts shown by the current submission
  submits,         \* number of handleSubmit runs so far
  isUploading,     \* useState(false): a property photo batch is being uploaded
  uploadingRoomIndex, \* useState<number | null>(null): the room whose batch is uploading
  batches,         \* the upload batches in flight (Promise.all not yet settled)
  started,         \* number of file selections handled so far
  ended,           \* the batch that settled last, and how
  lastSelect,      \* what the latest file selection found and did
  uploadFailedToasts, \* "Upload failed" toasts shown so far
  removals,        \* number of photos removed so far
  uploadedAt,      \* for each uploaded url, its position when it joined its list
  request,         \* the latest select answered by the store: the rows it returned
  peer             \* the wizard state of a second browser signed in to the same account

formVars == <<formData, currentStep>>
dbVars   == <<properties, property_rooms, room_photos, property_photos, nextId>>
subVars  == <<isSubmitting, pc, sub, log, pre, errorToasts, successToasts, submits>>
envVars  == <<id, user, loading, navigated>>
uploadVars == <<isUploading, uploadingRoomIndex, batches, started, ended, lastSelect,
                uploadFailedToasts, removals, uploadedAt>>
peerVars == <<request, peer>>
vars     == <<formData, currentStep, isSubmitting, loading, id, user, navigated,
              properties, property_rooms, room_photos, property_photos, nextId,
              pc, sub, log, pre, errorToasts, successToasts, submits,
              isUploading, uploadingRoomIndex, batches, started, ended, lastSelect,
              uploadFailedToasts, removals, uploadedAt, request, peer>>

-----------------------------------------------------------------------------
(* Bounds of the model.                                                     *)

MaxRooms == 2
MaxSubmits == 2
MaxBatches == 2
MaxRemovals == 1
MaxRowId == 5
MaxUpdates == 1

(* Program constants.                                                       *)

totalSteps == 6
MAX_PHOTOS == 20
MAX_ROOM_PHOTOS == 15

-----------------------------------------------------------------------------
(* Values.  A nullable column or field is Null or <<v>>.                    *)

Null == <<>>
Some(v) == <<v>>
NaN == <<0, 0>>

\* JavaScript's  x || ''  on a nullable text column
OrEmpty(v) == IF v = Null THEN "" ELSE v[1]

PropertyTypes == {"Hotel", "Villa"}
CancellationPolicies == {"Free", "Non-refundable"}
BedTypes == {"Single", "Double", "Twin", "Queen", "King"}
Statuses == {"draft", "published"}

Min(S) == CHOOSE x \in S : \A y \in S : x <= y

Range(s) == {s[k] : k \in 1..Len(s)}

-----------------------------------------------------------------------------
(* parsePriceInput: a string is a sequence of one-character strings.        *)

Digits == <<"0", "1", "2", "3", "4", "5", "6", "7", "8", "9">>

IsDigit(c) == \E d \in 1..10 : Digits[d] = c

DigitValue(c) == (CHOOSE d \in 1..10 : Digits[d] = c) - 1

RECURSIVE parseInt(_)
parseInt(ds) ==
  IF ds = <<>> THEN 0
  ELSE 10 * parseInt(SubSeq(ds, 1, Len(ds) - 1)) + DigitValue(ds[Len(ds)])

parsePriceInput(input) ==
  LET digitsOnly == SelectSeq(input, IsDigit)
  IN  IF Len(digitsOnly) = 0 THEN Null ELSE Some(parseInt(digitsOnly))

\* what the user may type into the price box: "", "a", "-5"
PriceInputs == { <<>>, <<"a">>, <<"-", "5">> }

-----------------------------------------------------------------------------
(* The form aggregate.                                                      *)

EmptyForm ==
  [ property_type |-> "", name |-> "", description |-> "", street_address |-> "",
    city |-> "", state |-> "", amenities |-> <<>>, rooms |-> <<>>,
    checkin_time |-> "", checkout_time |-> "", cancellation_policy |-> "",
    photos |-> <<>> ]

\* a new room that starts with no guest
NewRoomNoGuests ==
  [ room_type |-> "", bed_type |-> "", max_guests |-> 0, units_available |-> 1,
    facilities |-> <<>>, price_lkr |-> Null, photos |-> <<>> ]

NewRoom ==
  [ room_type |-> "", bed_type |-> "", max_guests |-> 1, units_available |-> 1,
    facilities |-> <<>>, price_lkr |-> Null, photos |-> <<>> ]

\* the wizard is on screen: not the loading spinner, not unmounted
Mounted == ~loading /\ ~navigated

setField(key, value) ==
  /\ Mounted
  /\ formData' = [formData EXCEPT ![key] = value]
  /\ UNCHANGED <<currentStep, dbVars, subVars, envVars, uploadVars, peerVars>>

SelectPropertyType(t) == currentStep = 1 /\ setField("property_type", t)
SetName(v)            == currentStep = 2 /\ setField("name", v)
SetDescription(v)     == currentStep = 2 /\ setField("description", v)
SetStreetAddress(v)   == currentStep = 2 /\ setField("street_address", v)
SetCity(v)            == currentStep = 2 /\ setField("city", v)
SetState(v)           == currentStep = 2 /\ setField("state", v)
SetCheckinTime(v)     == currentStep = 5 /\ setField("checkin_time", v)
SetCheckoutTime(v)    == currentStep = 5 /\ setField("checkout_time", v)
SetCancellationPolicy(v) == currentStep = 5 /\ setField("cancellation_policy", v)

\* the Next button's disabled condition
NextDisabledIgnoringCity ==
  \/ (currentStep = 1 /\ formData.property_type = "")
  \/ (currentStep = 2 /\ (formData.name = "" \/ formData.street_address = ""
                            \/ formData.state = ""))

NextDisabled ==
  \/ (currentStep = 1 /\ formData.property_type = "")
  \/ (currentStep = 2 /\ (formData.name = "" \/ formData.street_address = ""
                            \/ formData.city = "" \/ formData.state = ""))

\* the Next button is rendered and enabled
NextEnabled == currentStep < totalSteps /\ ~NextDisabled

nextStep ==
  /\ Mounted
  /\ NextEnabled
  /\ currentStep' = currentStep + 1
  /\ UNCHANGED <<formData, dbVars, subVars, envVars, uploadVars, peerVars>>

\* a Previous button that is disabled while the step's required fields are empty
prevStepValidating ==
  /\ Mounted
  /\ currentStep # 1
  /\ ~NextDisabled
  /\ currentStep > 1
  /\ currentStep' = currentStep - 1
  /\ UNCHANGED <<formData, dbVars, subVars, envVars, uploadVars, peerVars>>

prevStep ==
  /\ Mounted
  /\ currentStep # 1
  /\ currentStep > 1
  /\ currentStep' = currentStep - 1
  /\ UNCHANGED <<formData, dbVars, subVars, envVars, uploadVars, peerVars>>

addRoom ==
  /\ Mounted
  /\ currentStep = 4
  /\ Len(formData.rooms) < MaxRooms
  /\ formData' = [formData EXCEPT !.rooms = Append(@, NewRoom)]
  /\ UNCHANGED <<currentStep, dbVars, subVars, envVars, uploadVars, peerVars>>

updateRoomIn(rooms, index, field, value) ==
  [k \in 1..Len(rooms) |-> IF k = index THEN [rooms[k] EXCEPT ![field] = value]
                                        ELSE rooms[k]]

updateRoom(index, field, value) ==
  /\ Mounted
  /\ currentStep = 4
  /\ index \in 1..Len(formData.rooms)
  /\ formData' = [formData EXCEPT !.rooms = updateRoomIn(@, index, field, value)]
  /\ UNCHANGED <<currentStep, dbVars, subVars, envVars, uploadVars, peerVars>>

\* a filter that drops the room after the one asked for
removeRoomAfter(rooms, index) ==
  [k \in 1..(Len(rooms) - 1) |-> IF k < index + 1 /\ k < Len(rooms) THEN rooms[k] ELSE rooms[k + 1]]

\* prev.rooms.filter((_, i) => i !== index)
removeRoomIn(rooms, index) ==
  [k \in 1..(Len(rooms) - 1) |-> IF k < index THEN rooms[k] ELSE rooms[k + 1]]

removeRoom(index) ==
  /\ Mounted
  /\ currentStep = 4
  /\ index \in 1..Len(formData.rooms)
  /\ formData' = [formData EXCEPT !.rooms = removeRoomIn(@, index)]
  /\ UNCHANGED <<currentStep, dbVars, subVars, envVars, uploadVars, peerVars>>

\* num.toString() of a one-digit number
toString(num) == <<Digits[num + 1]>>

\* the SelectItems of Max Guests and of Units Available
GuestOptions == {toString(num) : num \in 1..9}

SetMaxGuests(index, value) == updateRoom(index, "max_guests", parseInt(value))

SetUnitsAvailable(index, value) == updateRoom(index, "units_available", parseInt(value))

SetRoomType(index, v) == updateRoom(index, "room_type", v)

\* two of the categories of AMENITY_CATEGORIES with their first amenities
AMENITY_CATEGORIES ==
  [ c \in {"Leisure & Wellness", "Family & Entertainment"} |->
      IF c = "Leisure & Wellness" THEN <<"Fitness center", "Sauna">> ELSE <<"Game room">> ]

\* prev.amenities[category] || []
AmenitiesOf(amenities, category) ==
  IF category \in DOMAIN amenities THEN amenities[category] ELSE <<>>

\* formData.amenities[category]?.includes(amenity) || false
AmenityChecked(amenities, category, amenity) ==
  \E k \in 1..Len(AmenitiesOf(amenities, category)) :
    AmenitiesOf(amenities, category)[k] = amenity

\* a handler that drops the key of a category whose list becomes empty
toggledDroppingEmpty(amenities, category, amenity, checked) ==
  LET old == AmenitiesOf(amenities, category)
      Keep(a) == a # amenity
      new == IF checked THEN Append(old, amenity) ELSE SelectSeq(old, Keep)
  IN  IF new = <<>>
      THEN [c \in DOMAIN amenities \ {category} |-> amenities[c]]
      ELSE [c \in DOMAIN amenities \cup {category} |->
              IF c = category THEN new ELSE amenities[c]]

\* { ...prev.amenities, [category]: checked ? [...old, amenity] : old.filter(a => a !== amenity) }
toggled(amenities, category, amenity, checked) ==
  LET old == AmenitiesOf(amenities, category)
      Keep(a) == a # amenity
      new == IF checked THEN Append(old, amenity) ELSE SelectSeq(old, Keep)
  IN  [c \in DOMAIN amenities \cup {category} |->
         IF c = category THEN new ELSE amenities[c]]

\* the amenity Checkbox's onCheckedChange: a click inverts the state shown
ToggleAmenity(category, amenity, checked) ==
  /\ Mounted
  /\ currentStep = 3
  /\ category \in DOMAIN AMENITY_CATEGORIES
  /\ amenity \in Range(AMENITY_CATEGORIES[category])
  /\ checked = ~AmenityChecked(formData.amenities, category, amenity)
  /\ formData' = [formData EXCEPT !.amenities = toggled(@, category, amenity, checked)]
  /\ UNCHANGED <<currentStep, dbVars, subVars, envVars, uploadVars, peerVars>>

\* the price box's onChange
ChangePrice(index, input) == updateRoom(index, "price_lkr", parsePriceInput(input))

SelectBedType(index, t) == updateRoom(index, "bed_type", t)

-----------------------------------------------------------------------------
(* Photo uploads.  A file selection that passes the limit check starts one  *)
(* batch: Promise.all over one upload per file.  The uploads of a batch     *)
(* settle one by one, in any order; the batch settles when its last upload  *)
(* succeeds or its first upload fails.                                      *)

\* the url Cloudinary returns for file j of selection b
Url(b, j) == <<b, j>>

\* the photos a list holds before any selection: urls of earlier uploads
StoredPhotos(c) == [k \in 1..c |-> Url(0, k)]

\* Array.from(e.target.files): the files in selection order
SelectedFiles(F) == [j \in 1..F |-> j]

NoNotice == [title |-> "", n |-> 0, have |-> 0]

\* allFiles.slice(-remaining): the last files of the selection
sliceFromEnd(files, remaining) ==
  SubSeq(files, Len(files) - Min({remaining, Len(files)}) + 1, Len(files))

\* allFiles.slice(0, remaining)
slice(files, remaining) == SubSeq(files, 1, Min({remaining, Len(files)}))

\* the hidden input id="photos" carries no disabled attribute
PropertyPickerDisabled == FALSE

\* property photo input onChange, up to the await
SelectPropertyPhotos(F) ==
  /\ Mounted
  /\ currentStep = 2
  /\ ~PropertyPickerDisabled
  /\ started < MaxBatches
  /\ started' = started + 1
  /\ LET allFiles == SelectedFiles(F)
         c == Len(formData.photos)
         remaining == MAX_PHOTOS - c
         files == slice(allFiles, remaining)
     IN  IF remaining <= 0
         THEN /\ lastSelect' = [target |-> 0, c |-> c, F |-> F, taken |-> <<>>,
                                notice |-> [title |-> "Limit reached", n |-> MAX_PHOTOS,
                                            have |-> 0]]
              /\ UNCHANGED <<isUploading, batches>>
         ELSE /\ lastSelect' = [target |-> 0, c |-> c, F |-> F, taken |-> files,
                                notice |-> IF Len(allFiles) > remaining
                                           THEN [title |-> "Too many files",
                                                 n |-> remaining, have |-> 0]
                                           ELSE NoNotice]
              /\ isUploading' = TRUE
              /\ batches' = batches \cup {[id |-> started + 1, target |-> 0,
                                           base |-> <<>>, files |-> files,
                                           order |-> <<>>]}
  /\ UNCHANGED <<peerVars, formVars, dbVars, subVars, envVars, uploadingRoomIndex, ended,
                 uploadFailedToasts, removals, uploadedAt>>

\* the room photo input's disabled condition
RoomPickerDisabled(k) ==
  \/ Len(formData.rooms[k].photos) >= MAX_ROOM_PHOTOS
  \/ uploadingRoomIndex = Some(k)

\* a limit check that also turns away a selection that fills the room exactly
RoomLimitReached(currentPhotos, newPhotosCount) ==
  currentPhotos + newPhotosCount >= MAX_ROOM_PHOTOS

\* if (currentPhotos + newPhotosCount > MAX_ROOM_PHOTOS)
RoomLimitExceeded(currentPhotos, newPhotosCount) ==
  currentPhotos + newPhotosCount > MAX_ROOM_PHOTOS

\* room photo input onChange and handleRoomPhotoUpload, up to the await
SelectRoomPhotos(k, F) ==
  /\ Mounted
  /\ currentStep = 4
  /\ k \in 1..Len(formData.rooms)
  /\ ~RoomPickerDisabled(k)
  /\ started < MaxBatches
  /\ started' = started + 1
  /\ LET files == SelectedFiles(F)
         room == formData.rooms[k]
         currentPhotos == Len(room.photos)
         newPhotosCount == Len(files)
     IN  IF RoomLimitExceeded(currentPhotos, newPhotosCount)
         THEN /\ lastSelect' = [target |-> k, c |-> currentPhotos, F |-> F,
                                taken |-> <<>>,
                                notice |-> [title |-> "Upload limit exceeded",
                                            n |-> MAX_ROOM_PHOTOS,
                                            have |-> currentPhotos]]
              /\ UNCHANGED <<uploadingRoomIndex, batches>>
         ELSE /\ lastSelect' = [target |-> k, c |-> currentPhotos, F |-> F,
                                taken |-> files, notice |-> NoNotice]
              /\ uploadingRoomIndex' = Some(k)
              /\ batches' = batches \cup {[id |-> started + 1, target |-> k,
                                           room |-> room, base |-> room.photos,
                                           files |-> files, order |-> <<>>]}
  /\ UNCHANGED <<peerVars, formVars, dbVars, subVars, envVars, isUploading, ended,
                 uploadFailedToasts, removals, uploadedAt>>

\* Promise.all's result listed in the order the uploads finished
uploadsInCompletionOrder(b, order) == [i \in 1..Len(order) |-> Url(b.id, b.files[order[i]])]

\* Promise.all's result: the urls in the order of files
uploads(b, order) == [i \in 1..Len(b.files) |-> Url(b.id, b.files[i])]

\* the list a batch's urls are appended to
TargetPhotos(b) == IF b.target = 0 THEN formData.photos ELSE b.base

\* finally: setIsUploading(false) / setUploadingRoomIndex(null)
ClearFlag(b) ==
  IF b.target = 0
  THEN isUploading' = FALSE /\ UNCHANGED uploadingRoomIndex
  ELSE uploadingRoomIndex' = Null /\ UNCHANGED isUploading

\* a catch that keeps the urls of the uploads that did finish
KeepFinished(b) ==
  LET got == uploadsInCompletionOrder(b, b.order)
  IN  IF b.target = 0
      THEN formData' = [formData EXCEPT !.photos = @ \o got]
      ELSE formData' = [formData EXCEPT
                          !.rooms = updateRoomIn(@, b.target, "photos", b.base \o got)]

\* catch: the error is logged and shown; the form is not written
DiscardBatch(b) == UNCHANGED formData

\* one upload of batch b finishes; with the last one Promise.all resolves and
\* the handler appends the urls, shows "Uploaded" and clears its flag
FileUploaded(b, j) ==
  /\ Mounted
  /\ b \in batches
  /\ j \in 1..Len(b.files)
  /\ \A i \in 1..Len(b.order) : b.order[i] # j
  /\ LET order == Append(b.order, j)
     IN  IF Len(order) < Len(b.files)
         THEN /\ batches' = (batches \ {b}) \cup {[b EXCEPT !.order = order]}
              /\ UNCHANGED <<formData, isUploading, uploadingRoomIndex, ended,
                             uploadedAt>>
         ELSE LET got == uploads(b, order)
                  at == Len(TargetPhotos(b))
              IN  /\ batches' = batches \ {b}
                  /\ IF b.target = 0
                     THEN formData' = [formData EXCEPT !.photos = @ \o got]
                     ELSE formData' = [formData EXCEPT
                            !.rooms = updateRoomIn(@, b.target, "photos", b.base \o got)]
                  /\ ClearFlag(b)
                  /\ ended' = [id |-> b.id, target |-> b.target, result |-> "ok",
                                files |-> b.files, order |-> order]
                  /\ uploadedAt' = uploadedAt \cup
                                     {<<got[i], at + i - 1>> : i \in 1..Len(got)}
  /\ UNCHANGED <<peerVars, currentStep, dbVars, subVars, envVars, started, lastSelect,
                 uploadFailedToasts, removals>>

\* one upload of batch b fails: Promise.all rejects, the handler shows
\* "Upload failed" and clears its flag
FileUploadFails(b, j) ==
  /\ Mounted
  /\ b \in batches
  /\ j \in 1..Len(b.files)
  /\ \A i \in 1..Len(b.order) : b.order[i] # j
  /\ batches' = batches \ {b}
  /\ DiscardBatch(b)
  /\ uploadFailedToasts' = uploadFailedToasts + 1
  /\ ClearFlag(b)
  /\ ended' = [id |-> b.id, target |-> b.target, result |-> "failed",
                files |-> b.files, order |-> b.order]
  /\ UNCHANGED <<peerVars, currentStep, dbVars, subVars, envVars, started, lastSelect,
                 removals, uploadedAt>>

\* the remove button of a property photo
removePropertyPhoto(idx) ==
  /\ Mounted
  /\ currentStep = 2
  /\ idx \in 1..Len(formData.photos)
  /\ removals < MaxRemovals
  /\ removals' = removals + 1
  /\ formData' = [formData EXCEPT
                    !.photos = [i \in 1..(Len(@) - 1) |-> IF i < idx THEN @[i] ELSE @[i + 1]]]
  /\ UNCHANGED <<peerVars, currentStep, dbVars, subVars, envVars, isUploading,
                 uploadingRoomIndex, batches, started, ended, lastSelect,
                 uploadFailedToasts, uploadedAt>>

removeRoomPhoto(roomIndex, photoIndex) ==
  /\ Mounted
  /\ currentStep = 4
  /\ roomIndex \in 1..Len(formData.rooms)
  /\ photoIndex \in 1..Len(formData.rooms[roomIndex].photos)
  /\ removals < MaxRemovals
  /\ removals' = removals + 1
  /\ LET room == formData.rooms[roomIndex]
         updatedPhotos == [i \in 1..(Len(room.photos) - 1) |->
                             IF i < photoIndex THEN room.photos[i] ELSE room.photos[i + 1]]
     IN  formData' = [formData EXCEPT
                        !.rooms = updateRoomIn(@, roomIndex, "photos", updatedPhotos)]
  /\ UNCHANGED <<peerVars, currentStep, dbVars, subVars, envVars, isUploading,
                 uploadingRoomIndex, batches, started, ended, lastSelect,
                 uploadFailedToasts, uploadedAt>>

-----------------------------------------------------------------------------
(* The tables.  A row is a record; a table is the set of its rows.          *)

isEditing == id # Null

NoUser == ""

Tables ==
  [ properties |-> properties, property_rooms |-> property_rooms,
    room_photos |-> room_photos, property_photos |-> property_photos ]

\* the property a room or photo row hangs under is owned by the requester
OwnsProperty(pid) == \E p \in properties : p.id = pid /\ p.user_id = user

\* column type TIME: the empty string is no time
ValidTime(v) == v = Null \/ v[1] # ""

\* NOT NULL and CHECK constraints of public.properties
PropertyRowOk(row) ==
  /\ row.property_type \in PropertyTypes
  /\ ValidTime(row.checkin_time)
  /\ ValidTime(row.checkout_time)
  /\ row.cancellation_policy = Null \/ row.cancellation_policy[1] \in CancellationPolicies
  /\ row.status \in Statuses

\* NOT NULL and CHECK constraints of public.property_rooms
RoomRowOk(row) ==
  /\ row.bed_type \in BedTypes
  /\ row.max_guests >= 1 /\ row.max_guests <= 9
  /\ row.units_available >= 1 /\ row.units_available <= 9
  /\ row.price_lkr # Null /\ row.price_lkr # NaN

\* ON DELETE CASCADE from property_rooms to room_photos
CascadeRoomPhotos(photos, deletedRoomIds) ==
  {ph \in photos : ph.room_id \notin deletedRoomIds}

-----------------------------------------------------------------------------
(* handleSubmit.  pc names the call whose response is awaited.              *)

\* the id the children are written under
TargetProperty == IF isEditing THEN id[1] ELSE sub.property

Mark(l, r) == [l EXCEPT ![Len(l)].result = r]

Issue(l, step, k) == Append(l, [step |-> step, room |-> k, result |-> "pending"])

\* for (const room of formData.rooms) if (room.price_lkr === null || isNaN) ...
NoPriceCheck(rooms) == FALSE

PriceMissing(rooms) ==
  \E k \in 1..Len(rooms) : rooms[k].price_lkr = Null \/ rooms[k].price_lkr = NaN

\* the first room from index `from` on whose photos are non-empty, 0 if none
RoomWithPhotosFrom(form, from) ==
  LET S == {k \in from..Len(form.rooms) : Len(form.rooms[k].photos) > 0}
  IN  IF S = {} THEN 0 ELSE Min(S)

Step(name, k) == [step |-> name, room |-> k]

\* what follows the property photo delete (edit) or the rooms block (create)
AfterPhotosDelete(form) ==
  IF Len(form.photos) > 0 THEN Step("photosInsert", 0) ELSE Step("success", 0)

\* the property photos inserted without deleting the stored ones first
AfterRoomsBlockNoDelete(form) == AfterPhotosDelete(form)

AfterRoomsBlock(form) ==
  IF isEditing THEN Step("photosDelete", 0) ELSE AfterPhotosDelete(form)

\* the loop over the rooms, continued after room i
AfterRoomPhotos(form, i) ==
  LET k == RoomWithPhotosFrom(form, i + 1)
  IN  IF k > 0 THEN Step("roomPhotosInsert", k) ELSE AfterRoomsBlock(form)

\* if (formData.rooms.length > 0) insert the rooms
RoomsBlock(form) ==
  IF Len(form.rooms) > 0 THEN Step("roomsInsert", 0) ELSE AfterRoomsBlock(form)

\* the rooms inserted without deleting the stored ones first
InsertWithoutDelete(form) == RoomsBlock(form)

\* what follows the property update in edit mode
AfterPropertyUpdate(form) == Step("roomsDelete", 0)

\* the call just answered ended with result r; run on to the next await or to the end
Resume(r, target, s) ==
  /\ sub' = [s EXCEPT !.i = target.room]
  /\ IF target.step = "success"
     THEN /\ pc' = "idle"
          /\ log' = Mark(log, r)
          /\ successToasts' = successToasts + 1
          /\ navigated' = TRUE
          /\ isSubmitting' = FALSE
     ELSE /\ pc' = target.step
          /\ log' = Issue(Mark(log, r), target.step, target.room)
          /\ UNCHANGED <<successToasts, navigated, isSubmitting>>
  /\ UNCHANGED <<errorToasts, pre, submits, formVars, id, user, loading, uploadVars, peerVars>>

\* a catch block that deletes the property row the submission inserted
ThrowCompensating ==
  /\ pc' = "idle"
  /\ log' = Mark(log, "error")
  /\ errorToasts' = errorToasts + 1
  /\ isSubmitting' = FALSE
  /\ properties' = {p \in properties : p.id # sub.property}
  /\ UNCHANGED <<property_rooms, room_photos, property_photos, nextId>>
  /\ UNCHANGED <<sub, successToasts, navigated, pre, submits, formVars, id, user, loading, uploadVars, peerVars>>

\* a catch block that issues the failed call once more
ThrowRetrying ==
  /\ pc' = pc
  /\ log' = Issue(Mark(log, "error"), pc, sub.i)
  /\ UNCHANGED <<errorToasts, isSubmitting>>
  /\ UNCHANGED dbVars
  /\ UNCHANGED <<sub, successToasts, navigated, pre, submits, formVars, id, user, loading, uploadVars, peerVars>>

\* throw: the catch block's toast, then finally; no call is issued
Throw ==
  /\ pc' = "idle"
  /\ log' = Mark(log, "error")
  /\ errorToasts' = errorToasts + 1
  /\ isSubmitting' = FALSE
  /\ UNCHANGED dbVars
  /\ UNCHANGED <<sub, successToasts, navigated, pre, submits, formVars, id, user, loading, uploadVars, peerVars>>

\* if (roomPhotosError) throw roomPhotosError
RoomPhotosErrorThrows(s) == Throw

\* if (roomPhotosError) console.error(...): the loop goes on
RoomPhotosError(s) ==
  /\ Resume("error", AfterRoomPhotos(s.form, s.i), s)
  /\ UNCHANGED dbVars

\* a property photo insert whose error is only logged
PhotosErrorIgnored(s) ==
  /\ Resume("error", Step("success", 0), s)
  /\ UNCHANGED dbVars

\* if (photosError) throw photosError
PhotosError(s) == Throw

\* a Publish button that stays enabled during a submission
PublishNeverDisabled == FALSE

\* the Publish button's disabled={isSubmitting}
PublishDisabled == isSubmitting

handleSubmit ==
  /\ Mounted
  /\ currentStep = totalSteps
  /\ ~PublishDisabled
  /\ user # NoUser
  /\ submits < MaxSubmits
  /\ submits' = submits + 1
  /\ pre' = Tables
  /\ successToasts' = 0
  /\ sub' = [form |-> formData, property |-> 0, rooms |-> <<>>, i |-> 0]
  /\ IF PriceMissing(formData.rooms)
     THEN /\ errorToasts' = 1
          /\ log' = <<>>
          /\ pc' = "idle"
          /\ isSubmitting' = FALSE
     ELSE /\ errorToasts' = 0
          /\ isSubmitting' = TRUE
          /\ pc' = IF isEditing THEN "propertyUpdate" ELSE "propertyInsert"
          /\ log' = Issue(<<>>, pc', 0)
  /\ UNCHANGED <<formVars, dbVars, envVars, uploadVars, peerVars>>

\* the row of supabase.from('properties').insert({...})
InsertedProperty(form) ==
  [ id |-> nextId, user_id |-> user, property_type |-> form.property_type,
    name |-> form.name, description |-> Some(form.description),
    street_address |-> form.street_address, city |-> form.city,
    state |-> form.state, amenities |-> form.amenities,
    checkin_time |-> Some(form.checkin_time),
    checkout_time |-> Some(form.checkout_time),
    cancellation_policy |-> Some(form.cancellation_policy),
    status |-> "published", updated_at |-> 0 ]

PropertyInsertResponse ==
  /\ pc = "propertyInsert"
  /\ \E ok \in BOOLEAN :
       LET row == InsertedProperty(sub.form)
       IN  /\ ok => (PropertyRowOk(row) /\ row.user_id = user)
           /\ IF ok
              THEN /\ properties' = properties \cup {row}
                   /\ nextId' = nextId + 1
                   /\ Resume("ok", RoomsBlock(sub.form), [sub EXCEPT !.property = row.id])
                   /\ UNCHANGED <<property_rooms, room_photos, property_photos>>
              ELSE Throw

\* the row after supabase.from('properties').update({...}).eq('id', id)
UpdatedPropertyPublishing(p, form) ==
  [ p EXCEPT !.property_type = form.property_type, !.name = form.name,
             !.description = Some(form.description),
             !.street_address = form.street_address, !.city = form.city,
             !.state = form.state, !.amenities = form.amenities,
             !.checkin_time = Some(form.checkin_time),
             !.checkout_time = Some(form.checkout_time),
             !.cancellation_policy = Some(form.cancellation_policy),
             !.status = "published",
             !.updated_at = p.updated_at + 1 ]

\* an update payload that also sends status: 'draft'
UpdatedPropertyAsDraft(p, form) ==
  [ p EXCEPT !.property_type = form.property_type, !.name = form.name,
             !.description = Some(form.description),
             !.street_address = form.street_address, !.city = form.city,
             !.state = form.state, !.amenities = form.amenities,
             !.checkin_time = Some(form.checkin_time),
             !.checkout_time = Some(form.checkout_time),
             !.cancellation_policy = Some(form.cancellation_policy),
             !.status = "draft",
             !.updated_at = p.updated_at + 1 ]

UpdatedProperty(p, form) ==
  [ p EXCEPT !.property_type = form.property_type, !.name = form.name,
             !.description = Some(form.description),
             !.street_address = form.street_address, !.city = form.city,
             !.state = form.state, !.amenities = form.amenities,
             !.checkin_time = Some(form.checkin_time),
             !.checkout_time = Some(form.checkout_time),
             !.cancellation_policy = Some(form.cancellation_policy),
             !.updated_at = p.updated_at + 1 ]

PropertyUpdateResponse ==
  /\ pc = "propertyUpdate"
  /\ \E ok \in BOOLEAN :
       LET hit == {p \in properties : p.id = id[1] /\ p.user_id = user}
       IN  /\ ok => \A p \in hit : PropertyRowOk(UpdatedProperty(p, sub.form))
           /\ IF ok
              THEN /\ properties' = (properties \ hit)
                                      \cup {UpdatedProperty(p, sub.form) : p \in hit}
                   /\ Resume("ok", AfterPropertyUpdate(sub.form), sub)
                   /\ UNCHANGED <<property_rooms, room_photos, property_photos, nextId>>
              ELSE Throw

RoomsDeleteResponse ==
  /\ pc = "roomsDelete"
  /\ \E ok \in BOOLEAN :
       LET hit == {r \in property_rooms : r.property_id = id[1] /\ OwnsProperty(r.property_id)}
       IN  IF ok
           THEN /\ property_rooms' = property_rooms \ hit
                /\ room_photos' = CascadeRoomPhotos(room_photos, {r.id : r \in hit})
                /\ Resume("ok", RoomsBlock(sub.form), sub)
                /\ UNCHANGED <<properties, property_photos, nextId>>
           ELSE Throw

\* formData.rooms.map(room => ({ property_id, room_type, ... })), ids in input order
RoomRows(form, pid) ==
  [ k \in 1..Len(form.rooms) |->
      [ id |-> nextId + k - 1, property_id |-> pid,
        room_type |-> form.rooms[k].room_type, bed_type |-> form.rooms[k].bed_type,
        max_guests |-> form.rooms[k].max_guests,
        units_available |-> form.rooms[k].units_available,
        facilities |-> form.rooms[k].facilities,
        price_lkr |-> form.rooms[k].price_lkr ] ]

RoomsInsertResponse ==
  /\ pc = "roomsInsert"
  /\ \E ok \in BOOLEAN :
       LET rows == RoomRows(sub.form, TargetProperty)
       IN  /\ ok => /\ \A k \in 1..Len(rows) : RoomRowOk(rows[k])
                    /\ OwnsProperty(TargetProperty)
           /\ IF ok
              THEN /\ property_rooms' = property_rooms \cup Range(rows)
                   /\ nextId' = nextId + Len(rows)
                   /\ LET s == [sub EXCEPT !.rooms = [k \in 1..Len(rows) |-> rows[k].id]]
                      IN  Resume("ok", AfterRoomPhotos(s.form, 0), s)
                   /\ UNCHANGED <<properties, room_photos, property_photos>>
              ELSE Throw

\* room.photos.map((photoUrl, photoIndex) => ({ room_id, photo_url, sort_order }))
RoomPhotoRowsFirstRoom(form, savedRooms, i) ==
  [ k \in 1..Len(form.rooms[i].photos) |->
      [ id |-> nextId + k - 1, room_id |-> savedRooms[1],
        photo_url |-> form.rooms[i].photos[k], sort_order |-> k - 1 ] ]

RoomPhotoRows(form, savedRooms, i) ==
  [ k \in 1..Len(form.rooms[i].photos) |->
      [ id |-> nextId + k - 1, room_id |-> savedRooms[i],
        photo_url |-> form.rooms[i].photos[k], sort_order |-> k - 1 ] ]

RoomPhotosInsertResponse ==
  /\ pc = "roomPhotosInsert"
  /\ \E ok \in BOOLEAN :
       LET rows == RoomPhotoRows(sub.form, sub.rooms, sub.i)
       IN  /\ ok => \A k \in 1..Len(rows) :
                      \E r \in property_rooms : r.id = rows[k].room_id
           /\ IF ok
              THEN /\ room_photos' = room_photos \cup Range(rows)
                   /\ nextId' = nextId + Len(rows)
                   /\ Resume("ok", AfterRoomPhotos(sub.form, sub.i), sub)
                   /\ UNCHANGED <<properties, property_rooms, property_photos>>
              ELSE RoomPhotosError(sub)

PhotosDeleteResponse ==
  /\ pc = "photosDelete"
  /\ \E ok \in BOOLEAN :
       LET hit == {ph \in property_photos :
                     ph.property_id = id[1] /\ OwnsProperty(ph.property_id)}
       IN  IF ok
           THEN /\ property_photos' = property_photos \ hit
                /\ Resume("ok", AfterPhotosDelete(sub.form), sub)
                /\ UNCHANGED <<properties, property_rooms, room_photos, nextId>>
           ELSE Throw

\* rows whose sort_order is the position the photo had when it was uploaded
PhotoRowsAtUploadPosition(form, pid) ==
  [ k \in 1..Len(form.photos) |->
      [ id |-> nextId + k - 1, property_id |-> pid,
        photo_url |-> form.photos[k],
        sort_order |-> (CHOOSE q \in uploadedAt : q[1] = form.photos[k])[2] ] ]

\* formData.photos.map((url, index) => ({ property_id, photo_url, sort_order }))
PhotoRows(form, pid) ==
  [ k \in 1..Len(form.photos) |->
      [ id |-> nextId + k - 1, property_id |-> pid,
        photo_url |-> form.photos[k], sort_order |-> k - 1 ] ]

PhotosInsertResponse ==
  /\ pc = "photosInsert"
  /\ \E ok \in BOOLEAN :
       LET rows == PhotoRows(sub.form, TargetProperty)
       IN  /\ ok => OwnsProperty(TargetProperty)
           /\ IF ok
              THEN /\ property_photos' = property_photos \cup Range(rows)
                   /\ nextId' = nextId + Len(rows)
                   /\ Resume("ok", Step("success", 0), sub)
                   /\ UNCHANGED <<properties, property_rooms, room_photos>>
              ELSE PhotosError(sub)

SubmitNext ==
  \/ handleSubmit
  \/ PropertyInsertResponse
  \/ PropertyUpdateResponse
  \/ RoomsDeleteResponse
  \/ RoomsInsertResponse
  \/ RoomPhotosInsertResponse
  \/ PhotosDeleteResponse
  \/ PhotosInsertResponse

-----------------------------------------------------------------------------
(* loadPropertyData: the property row with its photos, then its rooms with  *)
(* theirs.  Neither photo list is ordered by the query and the rooms of one *)
(* bulk insert share created_at, so the orders are the store's choice.      *)

Perms(S) == {q \in [1..Cardinality(S) -> S] : Range(q) = S}

\* RLS: the owner's rows, and the rows of published properties
CanRead(pid) ==
  \E p \in properties : p.id = pid /\ (p.user_id = user \/ p.status = "published")

LoadedRoom(row, photoRows) ==
  [ room_type |-> row.room_type, bed_type |-> row.bed_type,
    max_guests |-> row.max_guests, units_available |-> row.units_available,
    facilities |-> row.facilities, price_lkr |-> row.price_lkr,
    photos |-> [k \in 1..Len(photoRows) |-> photoRows[k].photo_url] ]

\* setFormData({...}) of loadPropertyData
LoadedForm(p, rooms, photoRows) ==
  [ property_type |-> p.property_type, name |-> p.name,
    description |-> OrEmpty(p.description),
    street_address |-> p.street_address, city |-> p.city, state |-> p.state,
    amenities |-> p.amenities, rooms |-> rooms,
    checkin_time |-> OrEmpty(p.checkin_time),
    checkout_time |-> OrEmpty(p.checkout_time),
    cancellation_policy |-> OrEmpty(p.cancellation_policy),
    photos |-> [k \in 1..Len(photoRows) |-> photoRows[k].photo_url] ]

loadPropertyData ==
  /\ pc = "load"
  /\ loading
  /\ \E ok \in BOOLEAN :
       LET found == {p \in properties : p.id = id[1] /\ CanRead(p.id)}
           roomRows == {r \in property_rooms : r.property_id = id[1] /\ CanRead(r.property_id)}
           photoRows == {ph \in property_photos :
                           ph.property_id = id[1] /\ CanRead(ph.property_id)}
       IN  /\ ok => Cardinality(found) = 1
           /\ IF ok
              THEN \E p \in found : \E ro \in Perms(roomRows) : \E po \in Perms(photoRows) :
                   \E rpo \in [1..Len(ro) -> UNION {Perms({ph \in room_photos : ph.room_id = r.id})
                                                      : r \in roomRows}] :
                      /\ \A k \in 1..Len(ro) :
                           rpo[k] \in Perms({ph \in room_photos : ph.room_id = ro[k].id})
                      /\ formData' = LoadedForm(p, [k \in 1..Len(ro) |-> LoadedRoom(ro[k], rpo[k])], po)
                      /\ UNCHANGED <<errorToasts, navigated>>
              ELSE /\ errorToasts' = errorToasts + 1
                   /\ navigated' = TRUE
                   /\ UNCHANGED formData
  /\ loading' = FALSE
  /\ pc' = "idle"
  /\ UNCHANGED <<currentStep, dbVars, isSubmitting, sub, log, pre, successToasts,
                 submits, id, user, uploadVars, peerVars>>

-----------------------------------------------------------------------------
(* Stored properties the edit flow starts from, and the aggregates that are *)
(* submitted.                                                               *)

SeedProperty(desc, ci, co, cp, st) ==
  [ id |-> 1, user_id |-> "u1", property_type |-> "Hotel", name |-> "Old Inn",
    description |-> desc, street_address |-> "1 Fort Rd", city |-> "Galle",
    state |-> "Southern", amenities |-> <<>>, checkin_time |-> ci,
    checkout_time |-> co, cancellation_policy |-> cp, status |-> st,
    updated_at |-> 0 ]

SeedRoom ==
  [ id |-> 2, property_id |-> 1, room_type |-> "Deluxe", bed_type |-> "King",
    max_guests |-> 2, units_available |-> 3, facilities |-> <<>>,
    price_lkr |-> Some(15000) ]

EmptyDB ==
  [ properties |-> {}, property_rooms |-> {}, room_photos |-> {},
    property_photos |-> {}, nextId |-> 1 ]

\* a stored property with one room, one room photo and one property photo
SeedWithChildren(p) ==
  [ properties |-> {p}, property_rooms |-> {SeedRoom},
    room_photos |-> {[id |-> 3, room_id |-> 2, photo_url |-> "u0", sort_order |-> 0]},
    property_photos |-> {[id |-> 4, property_id |-> 1, photo_url |-> "u0", sort_order |-> 0]},
    nextId |-> 5 ]

\* a stored property without rooms or photos
SeedBare(p) ==
  [ properties |-> {p}, property_rooms |-> {}, room_photos |-> {},
    property_photos |-> {}, nextId |-> 2 ]

PhotoLists == { <<>>, <<"u1">>, <<"u2", "u1">> }

SubmitRoomChoices ==
  { [NewRoom EXCEPT !.room_type = "Standard", !.bed_type = "Double",
                    !.price_lkr = parsePriceInput(input), !.photos = ph]
      : input \in PriceInputs, ph \in PhotoLists }

SubmitForms(policies) ==
  { [EmptyForm EXCEPT !.property_type = "Villa", !.name = "Seaside Inn",
                      !.description = "d", !.street_address = "2 Beach Rd",
                      !.city = "Galle", !.state = "Southern",
                      !.checkin_time = "14:00", !.checkout_time = "11:00",
                      !.cancellation_policy = cp, !.rooms = rooms, !.photos = ph]
      : cp \in policies, ph \in PhotoLists,
        rooms \in UNION {[1..n -> SubmitRoomChoices] : n \in 0..MaxRooms} }

\* no batch settled yet
NoBatch == [id |-> 0, target |-> -1, result |-> "", files |-> <<>>, order |-> <<>>]

\* no file selection handled yet
NoSelect == [target |-> -1, c |-> 0, F |-> 0, taken |-> <<>>, notice |-> NoNotice]

\* no request answered yet
NoRequest == [table |-> "", rows |-> {}]

\* no second browser
NoPeer == <<>>

InitTables(seed) ==
  /\ properties = seed.properties
  /\ property_rooms = seed.property_rooms
  /\ room_photos = seed.room_photos
  /\ property_photos = seed.property_photos
  /\ nextId = seed.nextId

InitIdle(seed) ==
  /\ user = "u1"
  /\ navigated = FALSE
  /\ isSubmitting = FALSE
  /\ sub = [form |-> EmptyForm, property |-> 0, rooms |-> <<>>, i |-> 0]
  /\ log = <<>>
  /\ pre = [properties |-> seed.properties, property_rooms |-> seed.property_rooms,
            room_photos |-> seed.room_photos, property_photos |-> seed.property_photos]
  /\ errorToasts = 0
  /\ successToasts = 0
  /\ submits = 0
  /\ isUploading = FALSE
  /\ uploadingRoomIndex = Null
  /\ batches = {}
  /\ started = 0
  /\ ended = NoBatch
  /\ lastSelect = NoSelect
  /\ uploadFailedToasts = 0
  /\ removals = 0
  /\ uploadedAt = {}
  /\ request = NoRequest
  /\ peer = NoPeer

\* the review step of a filled wizard: a new listing, or the edit of a stored one
InitSubmit ==
  /\ currentStep = totalSteps
  /\ loading = FALSE
  /\ pc = "idle"
  /\ \/ /\ id = Null
        /\ formData \in SubmitForms({"", "Free"})
        /\ \E seed \in {EmptyDB, SeedWithChildren(SeedProperty(Some("d"), Some("14:00"),
                                  Some("11:00"), Some("Free"), "published"))} :
             InitTables(seed) /\ InitIdle(seed)
     \/ /\ id = Some(1)
        /\ formData \in SubmitForms({"Non-refundable"})
        /\ \E seed \in {SeedWithChildren(SeedProperty(Some("d"), Some("14:00"),
                                  Some("11:00"), Some("Free"), "published")),
                        SeedBare(SeedProperty(Some(""), Some("14:00"),
                                  Some("11:00"), Some("Free"), "draft"))} :
             InitTables(seed) /\ InitIdle(seed)

SpecSubmit == InitSubmit /\ [][SubmitNext]_vars

-----------------------------------------------------------------------------
(* The wizard from its construction in create mode.                         *)

TextInputs == {"", "x"}

Init ==
  /\ formData = EmptyForm
  /\ currentStep = 1
  /\ loading = FALSE
  /\ id = Null
  /\ pc = "idle"
  /\ InitTables(EmptyDB)
  /\ InitIdle(EmptyDB)

WizardNext ==
  \/ \E t \in PropertyTypes : SelectPropertyType(t)
  \/ \E v \in TextInputs : SetName(v)
  \/ \E v \in TextInputs : SetStreetAddress(v)
  \/ \E v \in TextInputs : SetCity(v)
  \/ \E v \in TextInputs : SetState(v)
  \/ nextStep
  \/ prevStep
  \/ addRoom
  \/ \E i \in 1..MaxRooms : removeRoom(i)
  \/ \E i \in 1..MaxRooms : \E input \in PriceInputs : ChangePrice(i, input)
  \/ \E i \in 1..MaxRooms : SelectBedType(i, "Double")
  \/ SetCheckinTime("14:00")
  \/ SetCheckoutTime("11:00")
  \/ \E v \in CancellationPolicies : SetCancellationPolicy(v)

Next == WizardNext

Spec == Init /\ [][Next]_vars

-----------------------------------------------------------------------------
(* The photo pickers: a create-mode wizard with the core details filled in, *)
(* standing on the step of the property photos or on the step of the rooms, *)
(* its lists empty or close to their maximum from earlier uploads.          *)

\* how many files one selection may hold
FileCounts == {1, 2}

PhotoCounts == {0, MAX_PHOTOS - 1, MAX_PHOTOS}

RoomPhotoCounts == {0, MAX_ROOM_PHOTOS - 1}

\* on the step of the property photos, before any room is added
PropertyPhotoForms ==
  { [EmptyForm EXCEPT !.property_type = "Villa", !.name = "Seaside Inn",
                      !.street_address = "2 Beach Rd", !.city = "Galle",
                      !.state = "Southern", !.photos = StoredPhotos(c)]
      : c \in PhotoCounts }

\* on the step of the rooms, with two rooms added
RoomPhotoForms ==
  { [EmptyForm EXCEPT !.property_type = "Villa", !.name = "Seaside Inn",
                      !.street_address = "2 Beach Rd", !.city = "Galle",
                      !.state = "Southern",
                      !.rooms = [k \in {1, 2} |->
                                   [NewRoom EXCEPT !.photos = StoredPhotos(rc[k])]]]
      : rc \in [{1, 2} -> RoomPhotoCounts] }

InitPhotos ==
  /\ \/ currentStep = 2 /\ formData \in PropertyPhotoForms
     \/ currentStep = 4 /\ formData \in RoomPhotoForms
  /\ loading = FALSE
  /\ id = Null
  /\ pc = "idle"
  /\ InitTables(EmptyDB)
  /\ InitIdle(EmptyDB)

PhotosNext ==
  \/ \E F \in FileCounts : SelectPropertyPhotos(F)
  \/ \E k \in 1..MaxRooms : \E F \in FileCounts : SelectRoomPhotos(k, F)
  \/ \E b \in batches : \E j \in 1..Len(b.files) : FileUploaded(b, j)
  \/ \E b \in batches : \E j \in 1..Len(b.files) : FileUploadFails(b, j)
  \/ \E idx \in {1, Len(formData.photos)} : removePropertyPhoto(idx)
  \/ \E k \in 1..Len(formData.rooms) :
       \E idx \in {1, Len(formData.rooms[k].photos)} : removeRoomPhoto(k, idx)
SpecPhotos == InitPhotos /\ [][PhotosNext]_vars

-----------------------------------------------------------------------------
(* From the photos to the stored rows: a create-mode wizard with the other  *)
(* fields filled in and one room added, standing on the step of the property *)
(* photos with empty photo lists; photos are uploaded and removed, then the *)
(* form is published.                                                       *)

PublishForm ==
  [EmptyForm EXCEPT !.property_type = "Villa", !.name = "Seaside Inn",
                    !.description = "d", !.street_address = "2 Beach Rd",
                    !.city = "Galle", !.state = "Southern",
                    !.checkin_time = "14:00", !.checkout_time = "11:00",
                    !.cancellation_policy = "Free",
                    !.rooms = << [NewRoom EXCEPT !.room_type = "Standard",
                                                 !.bed_type = "Double",
                                                 !.price_lkr = Some(5)] >>]

InitPublish ==
  /\ formData = PublishForm
  /\ currentStep = 2
  /\ loading = FALSE
  /\ id = Null
  /\ pc = "idle"
  /\ InitTables(EmptyDB)
  /\ InitIdle(EmptyDB)

PublishNext ==
  \/ \E F \in FileCounts : SelectPropertyPhotos(F)
  \/ \E F \in FileCounts : SelectRoomPhotos(1, F)
  \/ \E b \in batches : \E j \in 1..Len(b.files) : FileUploaded(b, j)
  \/ \E idx \in {1, Len(formData.photos)} : removePropertyPhoto(idx)
  \/ \E idx \in {1, Len(formData.rooms[1].photos)} : removeRoomPhoto(1, idx)
  \/ nextStep
  \/ handleSubmit
  \/ PropertyInsertResponse
  \/ RoomsInsertResponse
  \/ RoomPhotosInsertResponse
  \/ PhotosInsertResponse

SpecPublish == InitPublish /\ [][PublishNext]_vars

-----------------------------------------------------------------------------
(* The edit flow from its construction: load a stored property, walk to the *)
(* review step and submit the form as loaded.                               *)

ReloadSeeds ==
  { mk[SeedProperty(desc, ci, co, cp, "published")]
      : desc \in {Null, Some("d")}, ci \in {Null, Some("14:00")},
        co \in {Null, Some("11:00")}, cp \in {Null, Some("Free")},
        mk \in {[p \in {SeedProperty(d2, ci2, co2, cp2, "published")
                          : d2 \in {Null, Some("d")}, ci2 \in {Null, Some("14:00")},
                            co2 \in {Null, Some("11:00")}, cp2 \in {Null, Some("Free")}}
                   |-> SeedWithChildren(p)],
                [p \in {SeedProperty(d2, ci2, co2, cp2, "published")
                          : d2 \in {Null, Some("d")}, ci2 \in {Null, Some("14:00")},
                            co2 \in {Null, Some("11:00")}, cp2 \in {Null, Some("Free")}}
                   |-> SeedBare(p)]} }

InitReload ==
  /\ formData = EmptyForm
  /\ currentStep = 1
  /\ loading = TRUE
  /\ id = Some(1)
  /\ pc = "load"
  /\ \E seed \in ReloadSeeds : InitTables(seed) /\ InitIdle(seed)

ReloadNext ==
  \/ loadPropertyData
  \/ nextStep
  \/ prevStep
  \/ handleSubmit
  \/ PropertyUpdateResponse
  \/ RoomsDeleteResponse
  \/ RoomsInsertResponse
  \/ RoomPhotosInsertResponse
  \/ PhotosDeleteResponse
  \/ PhotosInsertResponse

SpecReload == InitReload /\ [][ReloadNext]_vars

-----------------------------------------------------------------------------
(* The row policies.  The store answers requests of any requester: the      *)
(* signed-in owner, another signed-in user, or nobody (auth.uid() is null). *)
(* A USING clause hides the rows it rejects from the statement; a WITH      *)
(* CHECK clause rejects the statement; an UPDATE policy without WITH CHECK  *)
(* applies its USING clause to the new row as well.                         *)

Users == {"u1", "u2"}

Requesters == Users \cup {NoUser}

\* a policy that lets every requester through
AnyRequester(row) == TRUE

\* USING / WITH CHECK (auth.uid() = user_id)
IsOwner(row) == user # NoUser /\ row.user_id = user

PropertiesSelectPolicy(row) == IsOwner(row) \/ row.status = "published"

PropertiesInsertPolicy(row) == IsOwner(row)

PropertiesUpdatePolicy(row) == IsOwner(row)

PropertiesDeletePolicy(row) == IsOwner(row)

\* EXISTS (SELECT 1 FROM properties WHERE id = <row>.property_id AND user_id = auth.uid())
ParentOwned(row) ==
  \E p \in properties : p.id = row.property_id /\ IsOwner(p)

\* EXISTS (select 1 from properties p where p.id = <row>.property_id and p.status = 'published')
ParentPublished(row) ==
  \E p \in properties : p.id = row.property_id /\ p.status = "published"

ChildSelectPolicy(row) == ParentOwned(row) \/ ParentPublished(row)

ChildInsertPolicy(row) == ParentOwned(row)

ChildUpdatePolicy(row) == ParentOwned(row)

ChildDeletePolicy(row) == ParentOwned(row)

\* SET field = value
Apply(row, change) == [row EXCEPT ![change[1]] = change[2]]

\* the rows a select returns
Answer(table, rows) == request' = [table |-> table, rows |-> rows]

SelectFrame == UNCHANGED <<formVars, dbVars, subVars, envVars, uploadVars, peer>>

\* a write returns no rows
WriteFrame == request' = NoRequest /\ UNCHANGED <<formVars, subVars, envVars, uploadVars, peer>>

\* a new session: auth.uid() of the requests that follow
SignIn(u) ==
  /\ u \in Requesters
  /\ u # user
  /\ user' = u
  /\ request' = NoRequest
  /\ UNCHANGED <<formVars, dbVars, subVars, id, loading, navigated, uploadVars, peer>>

SelectProperties ==
  /\ Answer("properties", {p \in properties : PropertiesSelectPolicy(p)})
  /\ SelectFrame

SelectRooms ==
  /\ Answer("property_rooms", {r \in property_rooms : ChildSelectPolicy(r)})
  /\ SelectFrame

SelectPhotos ==
  /\ Answer("property_photos",
         {ph \in property_photos : ChildSelectPolicy(ph)})
  /\ SelectFrame

InsertProperty(owner, st) ==
  /\ nextId <= MaxRowId
  /\ LET row == [ id |-> nextId, user_id |-> owner, property_type |-> "Villa",
                  name |-> "New Inn", description |-> Null,
                  street_address |-> "3 Hill Rd", city |-> "Kandy",
                  state |-> "Central", amenities |-> <<>>, checkin_time |-> Null,
                  checkout_time |-> Null, cancellation_policy |-> Null,
                  status |-> st, updated_at |-> 0 ]
     IN  IF PropertiesInsertPolicy(row)
         THEN /\ properties' = properties \cup {row}
              /\ nextId' = nextId + 1
         ELSE /\ UNCHANGED <<properties, nextId>>
  /\ UNCHANGED <<property_rooms, room_photos, property_photos>>
  /\ WriteFrame

\* the BEFORE UPDATE trigger sets updated_at
UpdateProperty(pid, change) ==
  /\ LET hit == {p \in properties : p.id = pid /\ PropertiesSelectPolicy(p)
                                     /\ PropertiesUpdatePolicy(p)}
         new == {[Apply(p, change) EXCEPT !.updated_at = p.updated_at + 1] : p \in hit}
     IN  /\ hit # {} => \A p \in hit : p.updated_at < MaxUpdates
         /\ IF \A q \in new : PropertiesUpdatePolicy(q) /\ PropertyRowOk(q)
            THEN /\ properties' = (properties \ hit) \cup new
            ELSE /\ UNCHANGED properties
  /\ UNCHANGED <<property_rooms, room_photos, property_photos, nextId>>
  /\ WriteFrame

DeleteProperty(pid) ==
  /\ LET hit == {p \in properties : p.id = pid /\ PropertiesSelectPolicy(p)
                                     /\ PropertiesDeletePolicy(p)}
         gone == {p.id : p \in hit}
         goneRooms == {r \in property_rooms : r.property_id \in gone}
     IN  /\ properties' = properties \ hit
         /\ property_rooms' = property_rooms \ goneRooms
         /\ room_photos' = CascadeRoomPhotos(room_photos, {r.id : r \in goneRooms})
         /\ property_photos' = {ph \in property_photos : ph.property_id \notin gone}
  /\ UNCHANGED nextId
  /\ WriteFrame

InsertRoom(pid) ==
  /\ nextId <= MaxRowId
  /\ LET row == [SeedRoom EXCEPT !.id = nextId, !.property_id = pid]
     IN  IF ChildInsertPolicy(row)
         THEN /\ property_rooms' = property_rooms \cup {row}
              /\ nextId' = nextId + 1
         ELSE /\ UNCHANGED <<property_rooms, nextId>>
  /\ UNCHANGED <<properties, room_photos, property_photos>>
  /\ WriteFrame

UpdateRoom(rid, change) ==
  /\ LET hit == {r \in property_rooms : r.id = rid /\ ChildSelectPolicy(r)
                                         /\ ChildUpdatePolicy(r)}
         new == {Apply(r, change) : r \in hit}
     IN  IF \A q \in new : ChildUpdatePolicy(q) /\ RoomRowOk(q)
         THEN /\ property_rooms' = (property_rooms \ hit) \cup new
         ELSE /\ UNCHANGED property_rooms
  /\ UNCHANGED <<properties, room_photos, property_photos, nextId>>
  /\ WriteFrame

DeleteRoom(rid) ==
  /\ LET hit == {r \in property_rooms : r.id = rid /\ ChildSelectPolicy(r)
                                         /\ ChildDeletePolicy(r)}
     IN  /\ property_rooms' = property_rooms \ hit
         /\ room_photos' = CascadeRoomPhotos(room_photos, {r.id : r \in hit})
  /\ UNCHANGED <<properties, property_photos, nextId>>
  /\ WriteFrame

InsertPhoto(pid) ==
  /\ nextId <= MaxRowId
  /\ LET row == [id |-> nextId, property_id |-> pid, photo_url |-> "u9", sort_order |-> 0]
     IN  IF ChildInsertPolicy(row)
         THEN /\ property_photos' = property_photos \cup {row}
              /\ nextId' = nextId + 1
         ELSE /\ UNCHANGED <<property_photos, nextId>>
  /\ UNCHANGED <<properties, property_rooms, room_photos>>
  /\ WriteFrame

UpdatePhoto(phid, change) ==
  /\ LET hit == {ph \in property_photos : ph.id = phid /\ ChildSelectPolicy(ph)
                                           /\ ChildUpdatePolicy(ph)}
         new == {Apply(ph, change) : ph \in hit}
     IN  IF \A q \in new : ChildUpdatePolicy(q)
         THEN /\ property_photos' = (property_photos \ hit) \cup new
         ELSE /\ UNCHANGED property_photos
  /\ UNCHANGED <<properties, property_rooms, room_photos, nextId>>
  /\ WriteFrame

DeletePhoto(phid) ==
  /\ LET hit == {ph \in property_photos : ph.id = phid /\ ChildSelectPolicy(ph)
                                           /\ ChildDeletePolicy(ph)}
     IN  /\ property_photos' = property_photos \ hit
  /\ UNCHANGED <<properties, property_rooms, room_photos, nextId>>
  /\ WriteFrame

\* the stored draft of u1 with its room and its photos; its owner may publish it
PolicySeeds ==
  { SeedWithChildren(SeedProperty(Some("d"), Some("14:00"), Some("11:00"), Some("Free"),
                                  "draft")) }

InitPolicies ==
  /\ formData = EmptyForm
  /\ currentStep = 1
  /\ loading = FALSE
  /\ id = Null
  /\ pc = "idle"
  /\ \E seed \in PolicySeeds : InitTables(seed) /\ InitIdle(seed)

\* the ids a request may name: those of the stored properties
PropertyIds == {p.id : p \in properties}

PropertyChanges ==
  {<<"status", st>> : st \in Statuses} \cup {<<"user_id", u>> : u \in Users}

\* SET property_id = pid: the row is moved under another property
ChildChanges == {<<"property_id", pid>> : pid \in PropertyIds}

PoliciesNext ==
  \/ \E u \in Requesters : SignIn(u)
  \/ SelectProperties
  \/ SelectRooms
  \/ SelectPhotos
  \/ \E u \in Users : \E st \in Statuses : InsertProperty(u, st)
  \/ \E pid \in PropertyIds : \E change \in PropertyChanges : UpdateProperty(pid, change)
  \/ \E pid \in PropertyIds : DeleteProperty(pid)
  \/ \E pid \in PropertyIds : InsertRoom(pid)
  \/ \E r \in property_rooms : \E change \in ChildChanges : UpdateRoom(r.id, change)
  \/ \E r \in property_rooms : DeleteRoom(r.id)
  \/ \E pid \in PropertyIds : InsertPhoto(pid)
  \/ \E ph \in property_photos : \E change \in ChildChanges : UpdatePhoto(ph.id, change)
  \/ \E ph \in property_photos : DeletePhoto(ph.id)

SpecPolicies == InitPolicies /\ [][PoliciesNext]_vars

-----------------------------------------------------------------------------
(* Editing the rooms: a new listing whose core details are filled in,       *)
(* standing on the step of the rooms, and the edit of a stored property.    *)

RoomTypeInputs == {"A", "B"}

\* the ends of the SelectItems 1..9
GuestInputs == {toString(1), toString(9)}

CoreForm ==
  [EmptyForm EXCEPT !.property_type = "Villa", !.name = "Seaside Inn",
                    !.street_address = "2 Beach Rd", !.city = "Galle",
                    !.state = "Southern"]

\* the edit of the stored property opens: loadPropertyData is about to run
InitEdit ==
  /\ id = Some(1)
  /\ formData = EmptyForm
  /\ currentStep = 1
  /\ loading = TRUE
  /\ pc = "load"
  /\ \E seed \in {SeedWithChildren(SeedProperty(Some("d"), Some("14:00"),
                            Some("11:00"), Some("Free"), "published"))} :
       InitTables(seed) /\ InitIdle(seed)

InitCreateAt(step) ==
  /\ id = Null
  /\ formData = CoreForm
  /\ currentStep = step
  /\ loading = FALSE
  /\ pc = "idle"
  /\ InitTables(EmptyDB) /\ InitIdle(EmptyDB)

InitForm == InitCreateAt(4) \/ InitEdit

FormNext ==
  \/ loadPropertyData
  \/ nextStep
  \/ addRoom
  \/ \E i \in 1..MaxRooms : removeRoom(i)
  \/ \E i \in 1..MaxRooms : \E v \in RoomTypeInputs : SetRoomType(i, v)
  \/ \E i \in 1..MaxRooms : \E v \in GuestInputs : SetMaxGuests(i, v)
  \/ \E i \in 1..MaxRooms : \E v \in GuestInputs : SetUnitsAvailable(i, v)

SpecForm == InitForm /\ [][FormNext]_vars

-----------------------------------------------------------------------------
(* Choosing the amenities, in a new listing and in the edit of a stored     *)
(* property.                                                                *)

InitAmenities == InitCreateAt(3) \/ InitEdit

AmenitiesNext ==
  \/ loadPropertyData
  \/ nextStep
  \/ prevStep
  \/ \E c \in DOMAIN AMENITY_CATEGORIES : \E a \in Range(AMENITY_CATEGORIES[c]) :
       \E checked \in BOOLEAN : ToggleAmenity(c, a, checked)

SpecAmenities == InitAmenities /\ [][AmenitiesNext]_vars


-----------------------------------------------------------------------------
(* Submissions and upload batches with every call answered.  The wizard     *)
(* stands on the review step of a filled form (a new listing or an edit),   *)
(* or on a step with a photo picker.  The store answers every persistence   *)
(* call and Cloudinary every upload, with success or with failure; when the *)
(* user presses Publish or picks files is not constrained.                  *)

SettleRooms ==
  { <<>>,
    << [NewRoom EXCEPT !.room_type = "Standard", !.bed_type = "Double",
                       !.price_lkr = Some(5), !.photos = <<"u1">>] >>,
    << [NewRoom EXCEPT !.room_type = "Standard", !.bed_type = "Double"] >> }

SettleForms ==
  { [PublishForm EXCEPT !.rooms = rooms, !.photos = ph]
      : rooms \in SettleRooms, ph \in {<<>>, <<"u1">>} }

InitSettle ==
  \/ /\ currentStep = totalSteps
     /\ loading = FALSE
     /\ pc = "idle"
     /\ formData \in SettleForms
     /\ \/ id = Null /\ InitTables(EmptyDB) /\ InitIdle(EmptyDB)
        \/ /\ id = Some(1)
           /\ \E seed \in {SeedWithChildren(SeedProperty(Some("d"), Some("14:00"),
                                     Some("11:00"), Some("Free"), "published"))} :
                InitTables(seed) /\ InitIdle(seed)
  \/ InitPhotos

\* the store's answer to the call awaited
StoreAnswers ==
  \/ PropertyInsertResponse
  \/ PropertyUpdateResponse
  \/ RoomsDeleteResponse
  \/ RoomsInsertResponse
  \/ RoomPhotosInsertResponse
  \/ PhotosDeleteResponse
  \/ PhotosInsertResponse

\* one upload of a batch in flight settles
UploadSettles ==
  \/ \E b \in batches : \E j \in 1..Len(b.files) : FileUploaded(b, j)
  \/ \E b \in batches : \E j \in 1..Len(b.files) : FileUploadFails(b, j)

SettleNext ==
  \/ handleSubmit
  \/ StoreAnswers
  \/ \E F \in FileCounts : SelectPropertyPhotos(F)
  \/ \E k \in 1..MaxRooms : \E F \in FileCounts : SelectRoomPhotos(k, F)
  \/ UploadSettles

SpecSettle ==
  InitSettle /\ [][SettleNext]_vars /\ WF_vars(StoreAnswers) /\ WF_vars(UploadSettles)

-----------------------------------------------------------------------------
(* Removing rooms while their photos upload: the step of the rooms with two *)
(* rooms of different room types, the first of them holding a photo.        *)

RemovalForm ==
  [CoreForm EXCEPT !.rooms = << [NewRoom EXCEPT !.room_type = "A", !.photos = StoredPhotos(1)],
                               [NewRoom EXCEPT !.room_type = "B"] >>]

InitRemoval ==
  /\ formData = RemovalForm
  /\ currentStep = 4
  /\ loading = FALSE
  /\ id = Null
  /\ pc = "idle"
  /\ InitTables(EmptyDB)
  /\ InitIdle(EmptyDB)

RemovalNext ==
  \/ \E k \in 1..MaxRooms : \E F \in FileCounts : SelectRoomPhotos(k, F)
  \/ \E b \in batches : \E j \in 1..Len(b.files) : FileUploaded(b, j)
  \/ \E b \in batches : \E j \in 1..Len(b.files) : FileUploadFails(b, j)
  \/ \E i \in 1..MaxRooms : removeRoom(i)
  \/ addRoom

SpecRemoval == InitRemoval /\ [][RemovalNext]_vars

-----------------------------------------------------------------------------
(* From the rooms to the store: a new listing whose core details are filled *)
(* in, standing on the step of the rooms; rooms are added and filled in or  *)
(* not, the policies are set or not, and the form is published.             *)

InitGates == InitCreateAt(4)

GatesNext ==
  \/ addRoom
  \/ \E i \in 1..MaxRooms : ChangePrice(i, <<"5">>)
  \/ \E i \in 1..MaxRooms : SelectBedType(i, "Double")
  \/ nextStep
  \/ SetCheckinTime("14:00")
  \/ SetCheckoutTime("11:00")
  \/ \E v \in CancellationPolicies : SetCancellationPolicy(v)
  \/ handleSubmit
  \/ PropertyInsertResponse
  \/ RoomsInsertResponse

SpecGates == InitGates /\ [][GatesNext]_vars

-----------------------------------------------------------------------------
(* Two browsers of the owner edit the same stored property.  Each has its   *)
(* own component state and its own run of handleSubmit; the store answers   *)
(* one call at a time.  The variables hold the state of the browser that    *)
(* acts next, peer the state of the other one.                              *)

\* the component state of the browser in the foreground
LocalState ==
  [ formData |-> formData, currentStep |-> currentStep, isSubmitting |-> isSubmitting,
    pc |-> pc, sub |-> sub, log |-> log, pre |-> pre, errorToasts |-> errorToasts,
    successToasts |-> successToasts, submits |-> submits, navigated |-> navigated ]

\* the other browser takes the next step
SwitchBrowser ==
  /\ peer # NoPeer
  /\ peer' = LocalState
  /\ formData' = peer.formData
  /\ currentStep' = peer.currentStep
  /\ isSubmitting' = peer.isSubmitting
  /\ pc' = peer.pc
  /\ sub' = peer.sub
  /\ log' = peer.log
  /\ pre' = peer.pre
  /\ errorToasts' = peer.errorToasts
  /\ successToasts' = peer.successToasts
  /\ submits' = peer.submits
  /\ navigated' = peer.navigated
  /\ UNCHANGED <<dbVars, id, user, loading, uploadVars, request>>

\* an edited form whose room carries the mark of the browser
EditedForm(mark) ==
  [PublishForm EXCEPT !.rooms = << [NewRoom EXCEPT !.room_type = mark,
                                                   !.bed_type = "Double",
                                                   !.price_lkr = Some(5)] >>]

InitTwoBrowsers ==
  /\ id = Some(1)
  /\ currentStep = totalSteps
  /\ loading = FALSE
  /\ pc = "idle"
  /\ formData = EditedForm("A")
  /\ user = "u1"
  /\ navigated = FALSE
  /\ isSubmitting = FALSE
  /\ sub = [form |-> EmptyForm, property |-> 0, rooms |-> <<>>, i |-> 0]
  /\ log = <<>>
  /\ errorToasts = 0
  /\ successToasts = 0
  /\ submits = 0
  /\ isUploading = FALSE
  /\ uploadingRoomIndex = Null
  /\ batches = {}
  /\ started = 0
  /\ ended = NoBatch
  /\ lastSelect = NoSelect
  /\ uploadFailedToasts = 0
  /\ removals = 0
  /\ uploadedAt = {}
  /\ request = NoRequest
  /\ \E seed \in {SeedWithChildren(SeedProperty(Some("d"), Some("14:00"),
                            Some("11:00"), Some("Free"), "published"))} :
       /\ InitTables(seed)
       /\ pre = [properties |-> seed.properties, property_rooms |-> seed.property_rooms,
                 room_photos |-> seed.room_photos, property_photos |-> seed.property_photos]
  /\ peer = [LocalState EXCEPT !.formData = EditedForm("B")]

TwoBrowsersNext ==
  \/ SwitchBrowser
  \/ handleSubmit
  \/ PropertyUpdateResponse
  \/ RoomsDeleteResponse
  \/ RoomsInsertResponse
  \/ PhotosDeleteResponse

SpecTwoBrowsers == InitTwoBrowsers /\ [][TwoBrowsersNext]_vars

-----------------------------------------------------------------------------
(* The whole way through the wizard: from step 1 of a new listing, or from  *)
(* the load of a stored property, through the gates to Publish and the      *)
(* store's answers.                                                         *)

\* a stored property without rooms or photos whose texts are what TextInputs types
JourneyProperty ==
  [SeedProperty(Some("d"), Some("14:00"), Some("11:00"), Some("Free"), "published")
     EXCEPT !.name = "x", !.street_address = "x", !.city = "x", !.state = "x"]

InitJourney ==
  \/ Init
  \/ /\ id = Some(1)
     /\ formData = EmptyForm
     /\ currentStep = 1
     /\ loading = TRUE
     /\ pc = "load"
     /\ InitTables(SeedBare(JourneyProperty))
     /\ InitIdle(SeedBare(JourneyProperty))

JourneyNext ==
  \/ loadPropertyData
  \/ \E t \in PropertyTypes : SelectPropertyType(t)
  \/ \E v \in TextInputs : SetName(v)
  \/ \E v \in TextInputs : SetStreetAddress(v)
  \/ \E v \in TextInputs : SetCity(v)
  \/ \E v \in TextInputs : SetState(v)
  \/ nextStep
  \/ prevStep
  \/ handleSubmit
  \/ PropertyInsertResponse
  \/ PropertyUpdateResponse
  \/ RoomsDeleteResponse
  \/ PhotosDeleteResponse

SpecJourney == InitJourney /\ [][JourneyNext]_vars

-----------------------------------------------------------------------------
(* What the claims speak of.                                                *)

\* the last submission has run to its end
Finished == pc = "idle" /\ submits > 0

Succeeded == Finished /\ successToasts = 1

Failed == Finished /\ errorToasts = 1

LogAllOk == \A k \in 1..Len(log) : log[k].result = "ok"

StepEnded(name, r) == \E k \in 1..Len(log) : log[k].step = name /\ log[k].result = r

RoomPhotosEnded(i, r) ==
  \E k \in 1..Len(log) :
    log[k].step = "roomPhotosInsert" /\ log[k].room = i /\ log[k].result = r

PhotosOfRoom(rid) == {ph \in room_photos : ph.room_id = rid}

PhotosOfProperty(pid) == {ph \in property_photos : ph.property_id = pid}

RoomsOfProperty(pid) == {r \in property_rooms : r.property_id = pid}

\* the (url, sort_order) pairs of a set of photo rows, and of a form's photo array
RowKeys(rows) == {<<ph.photo_url, ph.sort_order>> : ph \in rows}

FormKeys(photos) == {<<photos[k], k - 1>> : k \in 1..Len(photos)}

\* rows holds exactly the photos of the array, in its order
ExactlyPhotos(rows, photos) ==
  Cardinality(rows) = Len(photos) /\ RowKeys(rows) = FormKeys(photos)

RowIsRoom(row, room, pid) ==
  /\ row.property_id = pid
  /\ row.room_type = room.room_type
  /\ row.bed_type = room.bed_type
  /\ row.max_guests = room.max_guests
  /\ row.units_available = room.units_available
  /\ row.facilities = room.facilities
  /\ row.price_lkr = room.price_lkr

\* the rooms of pid are exactly the submitted rooms, under the ids the insert returned
ExactlyRooms(pid) ==
  /\ Len(sub.rooms) = Len(sub.form.rooms)
  /\ Cardinality(Range(sub.rooms)) = Len(sub.form.rooms)
  /\ {r.id : r \in RoomsOfProperty(pid)} = Range(sub.rooms)
  /\ Cardinality(RoomsOfProperty(pid)) = Len(sub.form.rooms)
  /\ \A i \in 1..Len(sub.form.rooms) :
       \E r \in RoomsOfProperty(pid) : r.id = sub.rooms[i] /\ RowIsRoom(r, sub.form.rooms[i], pid)

RowHasFormScalars(p, form) ==
  /\ p.property_type = form.property_type
  /\ p.name = form.name
  /\ p.description = Some(form.description)
  /\ p.street_address = form.street_address
  /\ p.city = form.city
  /\ p.state = form.state
  /\ p.amenities = form.amenities
  /\ p.checkin_time = Some(form.checkin_time)
  /\ p.checkout_time = Some(form.checkout_time)
  /\ p.cancellation_policy = Some(form.cancellation_policy)

SameScalars(p, q) ==
  /\ p.property_type = q.property_type
  /\ p.name = q.name
  /\ p.description = q.description
  /\ p.street_address = q.street_address
  /\ p.city = q.city
  /\ p.state = q.state
  /\ p.amenities = q.amenities
  /\ p.checkin_time = q.checkin_time
  /\ p.checkout_time = q.checkout_time
  /\ p.cancellation_policy = q.cancellation_policy

HasNullPrice(rooms) ==
  \E k \in 1..Len(rooms) : rooms[k].price_lkr = Null \/ rooms[k].price_lkr = NaN

\* position of a step in the order the submission issues its calls
ListedRank(step) ==
  CASE step = "propertyInsert" -> 1
    [] step = "propertyUpdate" -> 1
    [] step = "roomsDelete" -> 2
    [] step = "roomsInsert" -> 3
    [] step = "roomPhotosInsert" -> 4
    [] step = "photosDelete" -> 5
    [] step = "photosInsert" -> 6

IssuedInOrder ==
  /\ \A k \in 1..Len(log) : (log[k].result = "pending") <=> (k = Len(log) /\ pc # "idle")
  /\ pc # "idle" => (log # <<>> /\ log[Len(log)].step = pc)
  /\ \A j \in 1..Len(log) : \A k \in 1..Len(log) :
       j < k => \/ ListedRank(log[j].step) < ListedRank(log[k].step)
                \/ /\ log[j].step = "roomPhotosInsert" /\ log[k].step = "roomPhotosInsert"
                   /\ log[j].room < log[k].room
  /\ \A k \in 1..Len(log) :
       log[k].step = "roomsInsert" =>
         /\ \E j \in 1..(k - 1) :
              log[j].step \in {"propertyInsert", "propertyUpdate"} /\ log[j].result = "ok"
         /\ id # Null => \E j \in 1..(k - 1) :
                           log[j].step = "roomsDelete" /\ log[j].result = "ok"

-----------------------------------------------------------------------------
(* The claims.                                                              *)

\* C1: a create-mode submission whose every persistence call succeeded leaves
\* exactly one new property row, exactly N new room rows referencing its id, for
\* room i exactly its K photos under the id generated for room i with sort_order
\* 0..K-1 in array order, and the M property photos with sort_order 0..M-1.
C1_CreateStoresAggregate ==
  (id = Null /\ Succeeded /\ LogAllOk) =>
    LET f == sub.form
        pid == sub.property
        newProperties == properties \ pre.properties
    IN  /\ pre.properties \subseteq properties
        /\ pre.property_rooms \subseteq property_rooms
        /\ pre.room_photos \subseteq room_photos
        /\ pre.property_photos \subseteq property_photos
        /\ Cardinality(newProperties) = 1
        /\ \A p \in newProperties : p.id = pid /\ RowHasFormScalars(p, f)
        /\ pid \notin {q.id : q \in pre.properties}
        /\ property_rooms \ pre.property_rooms = RoomsOfProperty(pid)
        /\ ExactlyRooms(pid)
        /\ \A i \in 1..Len(f.rooms) :
             ExactlyPhotos(PhotosOfRoom(sub.rooms[i]), f.rooms[i].photos)
        /\ \A ph \in room_photos \ pre.room_photos : ph.room_id \in Range(sub.rooms)
        /\ property_photos \ pre.property_photos = PhotosOfProperty(pid)
        /\ ExactlyPhotos(PhotosOfProperty(pid), f.photos)

C1_Witness ==
  /\ id = Null /\ Succeeded /\ LogAllOk
  /\ Len(sub.form.rooms) = 2
  /\ Len(sub.form.rooms[1].photos) = 1
  /\ Len(sub.form.rooms[2].photos) = 2
  /\ Len(sub.form.photos) = 2

C4_NoRollback ==
  (Failed /\ log # <<>>) =>
    /\ StepEnded("propertyInsert", "ok") =>
         \E p \in properties \ pre.properties :
           p.id = sub.property /\ RowHasFormScalars(p, sub.form)
    /\ StepEnded("propertyUpdate", "ok") =>
         \A p \in properties : p.id = id[1] => RowHasFormScalars(p, sub.form)
    /\ StepEnded("roomsDelete", "ok") =>
         \A r \in pre.property_rooms : r.property_id = id[1] => r \notin property_rooms
    /\ StepEnded("roomsInsert", "ok") => ExactlyRooms(TargetProperty)
    /\ \A i \in 1..Len(sub.rooms) :
         RoomPhotosEnded(i, "ok")
           => ExactlyPhotos(PhotosOfRoom(sub.rooms[i]), sub.form.rooms[i].photos)
    /\ StepEnded("photosDelete", "ok") =>
         \A ph \in pre.property_photos : ph.property_id = id[1] => ph \notin property_photos
    /\ (StepEnded("roomsDelete", "ok") /\ StepEnded("roomsInsert", "error")) =>
         /\ RoomsOfProperty(id[1]) = {}
         /\ \E p \in properties : p.id = id[1]

C4_Witness ==
  /\ Failed
  /\ id # Null
  /\ \E r \in pre.property_rooms : r.property_id = id[1]
  /\ StepEnded("roomsDelete", "ok")
  /\ StepEnded("roomsInsert", "error")

C6_EditOverwritesOnlyFormFields ==
  (id # Null /\ StepEnded("propertyUpdate", "ok")) =>
    /\ {p.id : p \in properties} = {q.id : q \in pre.properties}
    /\ Cardinality(properties) = Cardinality(pre.properties)
    /\ \A p \in properties : \A q \in pre.properties :
         p.id = q.id =>
           /\ p.user_id = q.user_id
           /\ p.status = q.status
           /\ p.updated_at = q.updated_at
           /\ IF p.id = id[1] THEN RowHasFormScalars(p, sub.form) ELSE p = q

\* C6 amended: as stated, except that the edit also overwrites updated_at.
C6_EditOverwritesFormFieldsAndUpdatedAt ==
  (id # Null /\ StepEnded("propertyUpdate", "ok")) =>
    /\ {p.id : p \in properties} = {q.id : q \in pre.properties}
    /\ Cardinality(properties) = Cardinality(pre.properties)
    /\ \A p \in properties : \A q \in pre.properties :
         p.id = q.id =>
           /\ p.user_id = q.user_id
           /\ p.status = q.status
           /\ IF p.id = id[1]
              THEN RowHasFormScalars(p, sub.form) /\ p.updated_at > q.updated_at
              ELSE p = q

C6_Witness ==
  /\ id # Null
  /\ StepEnded("propertyUpdate", "ok")
  /\ \E p \in properties : \E q \in pre.properties :
       /\ p.id = id[1] /\ q.id = id[1]
       /\ q.status = "draft"
       /\ q.name # p.name /\ q.property_type # p.property_type

\* C7: a property loaded into the form and resubmitted unchanged keeps every
\* scalar field of its row, also when description, check-in time, check-out time
\* or cancellation policy is null.
C7_ReloadKeepsScalars ==
  (id # Null /\ submits > 0) =>
    \A p \in properties : \A q \in pre.properties : p.id = q.id => SameScalars(p, q)

\* C8 as stated: the steps are issued one at a time in the listed order, create:
\* property insert, room insert, room-photo inserts, property-photo insert; edit:
\* property update, room delete, room insert, room-photo inserts, property-photo
\* insert; no room insert before the property write (and, in edit mode, the room
\* delete) has succeeded.
C8_ListedOrder ==
  /\ IssuedInOrder
  /\ \A k \in 1..Len(log) :
       log[k].step \in (IF id = Null
                        THEN {"propertyInsert", "roomsInsert", "roomPhotosInsert",
                              "photosInsert"}
                        ELSE {"propertyUpdate", "roomsDelete", "roomsInsert",
                              "roomPhotosInsert", "photosInsert"})

\* C8 amended: as stated, with the edit-mode list being property update, room
\* delete, room insert, room-photo inserts, property-photo delete, property-photo
\* insert.
C8_ListedOrderWithPhotoDelete ==
  /\ IssuedInOrder
  /\ \A k \in 1..Len(log) :
       log[k].step \in (IF id = Null
                        THEN {"propertyInsert", "roomsInsert", "roomPhotosInsert",
                              "photosInsert"}
                        ELSE {"propertyUpdate", "roomsDelete", "roomsInsert",
                              "roomPhotosInsert", "photosDelete", "photosInsert"})
  /\ \A k \in 1..Len(log) :
       (id # Null /\ log[k].step = "photosInsert") =>
         \E j \in 1..(k - 1) : log[j].step = "photosDelete" /\ log[j].result = "ok"

C8_Witness ==
  /\ id # Null
  /\ Len(log) = 7
  /\ log[7].step = "photosInsert"
  /\ log[4].step = "roomPhotosInsert" /\ log[5].step = "roomPhotosInsert"

\* C9: a submission of an aggregate with a room whose price is missing issues no
\* persistence call, shows one validation error, changes neither the form nor
\* the tables and ends with isSubmitting false; every persisted room row has a
\* non-null, non-negative numeric price.
C9_MissingPriceBlocksSubmit ==
  /\ (submits > 0 /\ HasNullPrice(sub.form.rooms)) =>
       /\ log = <<>> /\ pc = "idle"
       /\ errorToasts = 1 /\ successToasts = 0
       /\ ~isSubmitting /\ ~navigated
       /\ Tables = pre
       /\ formData = sub.form
  /\ \A r \in property_rooms :
       r.price_lkr # Null /\ Len(r.price_lkr) = 1 /\ r.price_lkr[1] >= 0

C9_Witness ==
  /\ submits > 0
  /\ Len(sub.form.rooms) = 2
  /\ sub.form.rooms[1].price_lkr # Null
  /\ sub.form.rooms[2].price_lkr = Null
  /\ errorToasts = 1

\* C10: at step 2 the Next button is enabled exactly when name, street address,
\* city and state are all non-empty.
C10_CoreDetailsGate ==
  (Mounted /\ currentStep = 2) =>
    ((ENABLED nextStep) <=>
       (formData.name # "" /\ formData.street_address # ""
          /\ formData.city # "" /\ formData.state # ""))

C10_Witness ==
  /\ currentStep = 2
  /\ formData.name # "" /\ formData.street_address # "" /\ formData.state # ""
  /\ formData.city = ""

\* C11: from every step greater than 1 the Previous button is enabled whatever
\* the fields hold and leads exactly one step back; every step of the wizard
\* that changes the step index changes it by one and leaves the aggregate as
\* it is.
C11_NavigationKeepsAggregate ==
  /\ [](( Mounted /\ currentStep > 1) =>
         /\ ENABLED prevStep
         /\ ~ENABLED (prevStep /\ currentStep' # currentStep - 1))
  /\ [](Mounted => ~ENABLED (nextStep /\ currentStep' # currentStep + 1))
  /\ [][currentStep' # currentStep =>
         /\ formData' = formData
         /\ currentStep' \in {currentStep - 1, currentStep + 1}]_vars

\* back on step 1 from a step 2 whose required fields are not all filled in
C11_Witness ==
  /\ currentStep = 1
  /\ formData.name = "x"
  /\ formData.city = ""

\* C12: in every reachable form state the property photo list has at most
\* MAX_PHOTOS entries and every room's photo list at most MAX_ROOM_PHOTOS.
C12_PhotoListsBounded ==
  /\ Len(formData.photos) <= MAX_PHOTOS
  /\ \A k \in 1..Len(formData.rooms) : Len(formData.rooms[k].photos) <= MAX_ROOM_PHOTOS

\* C13: a selection of F files in the property photo picker while the list
\* holds c photos uploads nothing and shows the limit error when c >= MAX_PHOTOS;
\* otherwise it starts the upload of exactly the first min(F, MAX_PHOTOS - c)
\* files in selection order, and when F > MAX_PHOTOS - c a notice reports
\* MAX_PHOTOS - c.
C13_PropertyPhotoLimit ==
  [][(started' = started + 1 /\ lastSelect'.target = 0) =>
       LET c == Len(formData.photos)
           F == lastSelect'.F
           fit == MAX_PHOTOS - c
       IN  /\ formData' = formData
           /\ IF c >= MAX_PHOTOS
              THEN /\ batches' = batches
                   /\ lastSelect'.taken = <<>>
                   /\ lastSelect'.notice.title = "Limit reached"
              ELSE /\ \E b \in batches' :
                        /\ batches' = batches \cup {b}
                        /\ b \notin batches
                        /\ b.target = 0
                        /\ b.files = [j \in 1..(IF F < fit THEN F ELSE fit) |-> j]
                        /\ b.files = lastSelect'.taken
                   /\ IF F > fit
                      THEN /\ lastSelect'.notice.title = "Too many files"
                           /\ lastSelect'.notice.n = fit
                      ELSE lastSelect'.notice = NoNotice]_vars

\* two files selected with room for one: the first is uploading
C13_Witness ==
  /\ lastSelect.target = 0
  /\ lastSelect.c = MAX_PHOTOS - 1
  /\ lastSelect.F = 2
  /\ lastSelect.taken = <<1>>
  /\ lastSelect.notice.n = 1

\* C14 as stated: a selection that would take a room beyond MAX_ROOM_PHOTOS
\* uploads the files that still fit and tells how many more could be accepted.
C14_RoomExcessOnlyRejected ==
  [][(started' = started + 1 /\ lastSelect'.target >= 1) =>
       LET k == lastSelect'.target
           c == Len(formData.rooms[k].photos)
           F == lastSelect'.F
           fit == MAX_ROOM_PHOTOS - c
       IN  /\ \E b \in batches' :
                /\ b \notin batches
                /\ b.target = k
                /\ b.files = [j \in 1..(IF F < fit THEN F ELSE fit) |-> j]
           /\ F > fit => lastSelect'.notice.n = fit]_vars

\* C14 amended: a selection of F files for a room holding c photos with
\* c + F > MAX_ROOM_PHOTOS is turned away whole: no file is uploaded, the form
\* is unchanged and the notice names MAX_ROOM_PHOTOS and the current count c; a
\* selection with c + F <= MAX_ROOM_PHOTOS starts the upload of all its files.
C14_RoomSelectionAllOrNothing ==
  [][(started' = started + 1 /\ lastSelect'.target >= 1) =>
       LET k == lastSelect'.target
           c == Len(formData.rooms[k].photos)
           F == lastSelect'.F
       IN  /\ formData' = formData
           /\ IF c + F > MAX_ROOM_PHOTOS
              THEN /\ batches' = batches
                   /\ uploadingRoomIndex' = uploadingRoomIndex
                   /\ lastSelect'.taken = <<>>
                   /\ lastSelect'.notice =
                        [title |-> "Upload limit exceeded", n |-> MAX_ROOM_PHOTOS, have |-> c]
              ELSE /\ \E b \in batches' :
                        /\ batches' = batches \cup {b}
                        /\ b \notin batches
                        /\ b.target = k
                        /\ b.files = [j \in 1..F |-> j]
                   /\ lastSelect'.notice = NoNotice]_vars

\* two files selected for a room with space for one: nothing is uploading
C14_Witness ==
  /\ lastSelect.target = 1
  /\ lastSelect.c = MAX_ROOM_PHOTOS - 1
  /\ lastSelect.F = 2
  /\ lastSelect.taken = <<>>
  /\ lastSelect.notice.have = MAX_ROOM_PHOTOS - 1
  /\ batches = {}

\* the urls of batch b that some photo list of the form holds
UrlsOfBatchIn(form, b) ==
  {u \in Range(form.photos) : u[1] = b}
    \cup UNION {{u \in Range(form.rooms[k].photos) : u[1] = b} : k \in 1..Len(form.rooms)}

\* C15: when an upload of a batch fails the form is left as it is and none of
\* the batch's urls is in any photo list, then or later; one failure
\* notification is shown and the flag of the batch's control is cleared.
C15_FailedBatchAddsNothing ==
  /\ [][(ended'.id # ended.id /\ ended'.result = "failed") =>
          /\ formData' = formData
          /\ uploadFailedToasts' = uploadFailedToasts + 1
          /\ \A b \in batches' : b.id # ended'.id
          /\ IF ended'.target = 0
             THEN isUploading' = FALSE
             ELSE uploadingRoomIndex' = Null]_vars
  /\ [](ended.result = "failed" => UrlsOfBatchIn(formData, ended.id) = {})

\* a batch of two files failed after one of its uploads had finished
C15_Witness ==
  /\ ended.result = "failed"
  /\ Len(ended.files) = 2
  /\ Len(ended.order) = 1
  /\ uploadFailedToasts = 1

\* the last n entries of a list
LastN(list, n) == SubSeq(list, Len(list) - n + 1, Len(list))

\* C16: when the last upload of a batch finishes, whatever the order in which
\* its uploads finished, the target list ends with the batch's urls in the order
\* the files were selected, after the photos it held before.
C16_UrlsInSelectionOrder ==
  [][(ended'.id # ended.id /\ ended'.result = "ok") =>
       LET n == Len(ended'.files)
           urls == [i \in 1..n |-> Url(ended'.id, ended'.files[i])]
           k == ended'.target
       IN  IF k = 0
           THEN formData'.photos = formData.photos \o urls
           ELSE /\ k \in 1..Len(formData'.rooms)
                /\ Len(formData'.rooms[k].photos) >= n
                /\ LastN(formData'.rooms[k].photos, n) = urls
                /\ \A b \in batches : b.id = ended'.id =>
                     formData'.rooms[k].photos = b.base \o urls]_vars

\* a batch whose second file finished uploading before its first
C16_Witness ==
  /\ ended.result = "ok"
  /\ ended.order = <<2, 1>>
  /\ \/ ended.target = 0 /\ Len(formData.photos) >= 2
     \/ ended.target >= 1

\* C17: while a submission awaits a response the Publish button is disabled and
\* handleSubmit cannot start; a submission starts only when none is in flight,
\* and one submission inserts at most one property row.
C17_OneSubmissionInFlight ==
  /\ [](pc # "idle" => (isSubmitting /\ PublishDisabled /\ ~ENABLED handleSubmit))
  /\ [][submits' # submits => pc = "idle"]_vars
  /\ [](/\ Cardinality(properties \ pre.properties) <= 1
        /\ Cardinality({k \in 1..Len(log) : log[k].step = "propertyInsert"}) <= 1)

\* a second submission is under way after the first one failed
C17_Witness ==
  /\ submits = 2
  /\ pc = "roomsInsert"
  /\ isSubmitting
  /\ Cardinality(properties \ pre.properties) = 1

\* C18: while a batch is in flight for a control, that control is disabled and
\* no second batch is in flight for it.
C18_BusyPickerDisabled ==
  /\ \A b \in batches :
       IF b.target = 0
       THEN PropertyPickerDisabled
       ELSE b.target \in 1..Len(formData.rooms) => RoomPickerDisabled(b.target)
  /\ \A b1 \in batches : \A b2 \in batches : b1.target = b2.target => b1 = b2

\* C19 as stated: a stored photo row carries as sort_order the position its
\* photo had when it was uploaded.
C19_SortOrderIsUploadPosition ==
  /\ \A ph \in property_photos : <<ph.photo_url, ph.sort_order>> \in uploadedAt
  /\ \A ph \in room_photos : <<ph.photo_url, ph.sort_order>> \in uploadedAt

\* C19 amended: a photo row written by a submission carries as sort_order the
\* position its photo has in the submitted list, so the values stored for one
\* list are 0..K-1 without gaps also when earlier photos were removed before
\* the submission.
C19_SortOrderIsSubmitPosition ==
  /\ \A ph \in property_photos \ pre.property_photos :
       /\ ph.sort_order + 1 \in 1..Len(sub.form.photos)
       /\ sub.form.photos[ph.sort_order + 1] = ph.photo_url
  /\ \A ph \in room_photos \ pre.room_photos :
       \E i \in 1..Len(sub.rooms) :
         /\ ph.room_id = sub.rooms[i]
         /\ ph.sort_order + 1 \in 1..Len(sub.form.rooms[i].photos)
         /\ sub.form.rooms[i].photos[ph.sort_order + 1] = ph.photo_url
  /\ StepEnded("photosInsert", "ok") =>
       {ph.sort_order : ph \in property_photos \ pre.property_photos}
         = 0..(Len(sub.form.photos) - 1)

\* the first of two uploaded photos was removed and the other one is stored
C19_Witness ==
  /\ Succeeded
  /\ removals > 0
  /\ \E ph \in property_photos :
       /\ ph.sort_order = 0
       /\ <<ph.photo_url, 1>> \in uploadedAt

\* C20: no step takes a stored property from published to draft: a row that is
\* published stays published as long as it is stored, the row a create-mode
\* submission inserts is published, and an edit leaves the status of every row
\* as it was.
C20_PublishedStaysPublished ==
  /\ [][\A p \in properties : \A q \in properties' :
          (q.id = p.id /\ p.status = "published") => q.status = "published"]_vars
  /\ [](\A p \in properties :
          p.id \notin {q.id : q \in pre.properties} => p.status = "published")
  /\ [][id # Null => \A p \in properties : \A q \in properties' :
                       q.id = p.id => q.status = p.status]_vars

\* a published property whose edit has been written
C20_Witness ==
  /\ id # Null
  /\ StepEnded("propertyUpdate", "ok")
  /\ \E q \in pre.properties : q.id = id[1] /\ q.status = "published"
  /\ \E p \in properties :
       p.id = id[1] /\ p.status = "published" /\ p.name = sub.form.name /\ p.updated_at > 0

\* the owner of the property a child row hangs under
OwnerOfParent(row, props) == {p.user_id : p \in {q \in props : q.id = row.property_id}}

\* C21: under the row policies a request inserts, changes or deletes a property
\* row, a room row or a property photo row only when the requester owns the
\* property, and a select returns a row only when the requester owns the
\* property or the property is published.
C21_OnlyOwnerWritesAndReadsDrafts ==
  /\ [][/\ \A p \in properties \ properties' : p.user_id = user
        /\ \A p \in properties' \ properties : p.user_id = user
        /\ \A r \in property_rooms \ property_rooms' : OwnerOfParent(r, properties) = {user}
        /\ \A r \in property_rooms' \ property_rooms : OwnerOfParent(r, properties') = {user}
        /\ \A ph \in property_photos \ property_photos' :
             OwnerOfParent(ph, properties) = {user}
        /\ \A ph \in property_photos' \ property_photos :
             OwnerOfParent(ph, properties') = {user}]_vars
  /\ [][request' # request =>
          \A row \in request'.rows :
            IF request'.table = "properties"
            THEN row \in properties /\ (row.user_id = user \/ row.status = "published")
            ELSE \E p \in properties :
                   /\ p.id = row.property_id
                   /\ (p.user_id = user \/ p.status = "published")]_vars
  /\ [](\A p \in properties : p.user_id # NoUser)

\* another user's select on properties has returned the published property of
\* u1 and not the draft one
C21_Witness ==
  /\ user = "u2"
  /\ request.table = "properties"
  /\ \E p \in request.rows : p.user_id = "u1" /\ p.status = "published"
  /\ \E p \in properties : p.user_id = "u1" /\ p.status = "draft" /\ p \notin request.rows
  /\ \A p \in request.rows : p \in properties

\* C22: in every form state every room's max_guests and units_available is an
\* integer in 1..9.
C22_GuestsAndUnitsInRange ==
  \A k \in 1..Len(formData.rooms) :
    /\ formData.rooms[k].max_guests \in 1..9
    /\ formData.rooms[k].units_available \in 1..9

\* a room added in the wizard whose selects were both set to their last item,
\* next to a room as addRoom made it
C22_Witness ==
  /\ Len(formData.rooms) = 2
  /\ \E k \in 1..2 : formData.rooms[k].max_guests = 9 /\ formData.rooms[k].units_available = 9
  /\ \E k \in 1..2 : formData.rooms[k] = NewRoom

\* C23: a toggle keeps every category key and adds the key of its own category;
\* it leaves the lists of the other categories and every other form field as
\* they were; toggling on appends the name to its category's list, toggling off
\* removes just that name, and the key stays also when the list becomes empty.
C23_ToggleTouchesOneAmenity ==
  [][\A c \in DOMAIN AMENITY_CATEGORIES : \A a \in Range(AMENITY_CATEGORIES[c]) :
       \A checked \in BOOLEAN :
         ToggleAmenity(c, a, checked) =>
           LET old == formData.amenities
               new == formData'.amenities
               was == AmenitiesOf(old, c)
           IN  /\ DOMAIN new = DOMAIN old \cup {c}
               /\ \A other \in DOMAIN old \ {c} : new[other] = old[other]
               /\ checked => new[c] = Append(was, a)
               /\ ~checked => /\ Len(new[c]) = Len(was) - 1
                              /\ Range(new[c]) = Range(was) \ {a}
                              /\ \A i \in 1..Len(new[c]) : \A j \in 1..Len(new[c]) :
                                   i < j => \E x \in 1..Len(was) : \E y \in 1..Len(was) :
                                              x < y /\ was[x] = new[c][i] /\ was[y] = new[c][j]
               /\ [formData' EXCEPT !.amenities = old] = formData
               /\ currentStep' = currentStep]_vars

\* the last amenity of one category was toggled off while another category
\* holds an amenity
C23_Witness ==
  /\ "Leisure & Wellness" \in DOMAIN formData.amenities
  /\ formData.amenities["Leisure & Wellness"] = <<>>
  /\ "Family & Entertainment" \in DOMAIN formData.amenities
  /\ formData.amenities["Family & Entertainment"] = <<"Game room">>

\* the fields of a room the rooms step writes, with the values it can write
RoomWrites ==
  ({"room_type"} \X RoomTypeInputs) \cup ({"max_guests", "units_available"} \X (1..9))

RoomFields ==
  {"room_type", "bed_type", "max_guests", "units_available", "facilities", "price_lkr",
   "photos"}

\* C24: removeRoom(i) deletes exactly the room at index i: the rooms before it
\* keep their index, the rooms after it move down by one with their contents,
\* and nothing else of the form changes; updateRoom(i, field, value) changes only
\* that field of room i.
C24_RoomEditsAreLocal ==
  [][/\ \A i \in 1..MaxRooms :
          removeRoom(i) =>
            LET old == formData.rooms
                new == formData'.rooms
            IN  /\ Len(new) = Len(old) - 1
                /\ \A k \in 1..(i - 1) : new[k] = old[k]
                /\ \A k \in i..Len(new) : new[k] = old[k + 1]
                /\ [formData' EXCEPT !.rooms = old] = formData
                /\ currentStep' = currentStep
     /\ \A i \in 1..MaxRooms : \A w \in RoomWrites :
          updateRoom(i, w[1], w[2]) =>
            LET old == formData.rooms
                new == formData'.rooms
            IN  /\ Len(new) = Len(old)
                /\ new[i][w[1]] = w[2]
                /\ \A f \in RoomFields \ {w[1]} : new[i][f] = old[i][f]
                /\ \A k \in 1..Len(old) : k # i => new[k] = old[k]
                /\ [formData' EXCEPT !.rooms = old] = formData
                /\ currentStep' = currentStep]_vars

\* in the edit of the stored property a room was added and changed, and the
\* stored room before it was removed: the added room stands at index 1
C24_Witness ==
  /\ id # Null
  /\ currentStep = 4
  /\ Len(formData.rooms) = 1
  /\ formData.rooms[1].room_type = "B"
  /\ formData.rooms[1].max_guests = 9
  /\ formData.rooms[1].photos = <<>>

\* batch n is in flight
InFlight(n) == \E b \in batches : b.id = n

C26_AppendsToListAtCompletion ==
  [][(ended'.id # ended.id /\ ended'.result = "ok" /\ ended'.target >= 1) =>
       LET k == ended'.target
           urls == [i \in 1..Len(ended'.files) |-> Url(ended'.id, ended'.files[i])]
       IN  k \in 1..Len(formData.rooms) =>
             formData'.rooms[k].photos = formData.rooms[k].photos \o urls]_vars

\* C27: when the last upload of a room's batch finishes, the only room whose
\* photo list changes is the room the files were picked for.
C27_UrlsGoToTheRoomPickedFor ==
  [][(ended'.id # ended.id /\ ended'.result = "ok" /\ ended'.target >= 1) =>
       \A b \in batches :
         b.id = ended'.id =>
           \A i \in 1..Len(formData.rooms) :
             formData'.rooms[i].photos # formData.rooms[i].photos
               => formData.rooms[i].room_type = b.room.room_type]_vars

\* C28: whenever handleSubmit issues its first store call, the submitted form
\* meets the column constraints: the property type is Hotel or Villa, the
\* cancellation policy is Free or Non-refundable, and every room has one of
\* the five bed types.
C28_SubmittedFormMeetsConstraints ==
  pc \in {"propertyInsert", "propertyUpdate"} =>
    /\ sub.form.property_type \in PropertyTypes
    /\ sub.form.cancellation_policy \in CancellationPolicies
    /\ \A k \in 1..Len(sub.form.rooms) : sub.form.rooms[k].bed_type \in BedTypes

\* the stored rooms, room photos and property photos of property 1 are those of the form
PersistedAs(form) ==
  LET rooms == {r \in property_rooms : r.property_id = 1}
      photos == {ph \in property_photos : ph.property_id = 1}
      ofRooms == {ph \in room_photos : \E r \in rooms : r.id = ph.room_id}
  IN  /\ Cardinality(rooms) = Len(form.rooms)
      /\ {r.room_type : r \in rooms} = {form.rooms[k].room_type : k \in 1..Len(form.rooms)}
      /\ Cardinality(photos) = Len(form.photos)
      /\ {ph.photo_url : ph \in photos} = Range(form.photos)
      /\ {ph.photo_url : ph \in ofRooms}
           = UNION {Range(form.rooms[k].photos) : k \in 1..Len(form.rooms)}

\* C29: when the submissions of both browsers have reported success, every call
\* of both answered without error, the stored rooms and photos of the property
\* are those of one of the two submitted forms.
C29_ChildrenOfOneSubmission ==
  (peer # NoPeer /\ pc = "idle" /\ peer.pc = "idle"
     /\ successToasts = 1 /\ peer.successToasts = 1
     /\ \A k \in 1..Len(log) : log[k].result = "ok"
     /\ \A j \in 1..Len(peer.log) : peer.log[j].result = "ok")
    => (PersistedAs(sub.form) \/ PersistedAs(peer.sub.form))

\* property type, name, street address, city and state of the form are non-empty
CoreFilled(form) ==
  /\ form.property_type # ""
  /\ form.name # ""
  /\ form.street_address # ""
  /\ form.city # ""
  /\ form.state # ""

\* C30: the step is always one of 1..6; on step 3 or later the property type,
\* name, street address, city and state are non-empty; and whenever the property
\* insert or update is awaited the submitted type is Hotel or Villa and those
\* four fields are non-empty.
C30_StepsAndCoreFields ==
  /\ currentStep \in 1..totalSteps
  /\ currentStep >= 3 => CoreFilled(formData)
  /\ pc \in {"propertyInsert", "propertyUpdate"} =>
       (sub.form.property_type \in PropertyTypes /\ CoreFilled(sub.form))

\* the edit of a stored hotel, turned into a villa on step 1, has passed the
\* gates and awaits the property update
C30_Witness ==
  /\ pc = "propertyUpdate" /\ isEditing /\ currentStep = totalSteps
  /\ sub.form.property_type = "Villa"

====
